---- MODULE Spec2Model ----
(***************************************************************************)
(* A model of the minimact reconciler, patch validator and predictor.      *)
(*                                                                         *)
(* Representation.  Option<T> is a sequence of length 0 (None) or 1        *)
(* (Some).  A String is a sequence of one-character strings.  A            *)
(* HashMap<String,String> is a set of <<key, value>> pairs with distinct   *)
(* keys.  A HexPath is the sequence of its u32 segments: the string form   *)
(* is the segments formatted {:08x} and joined with '.', so string         *)
(* equality is equality of the segment sequences, the root path "" is <<>> *)
(* and "the path holds a '.'" is "the sequence has two or more segments".  *)
(***************************************************************************)
EXTENDS Integers, Sequences, FiniteSets, TLC

VARIABLES
    old, new, patches,      \* one reconcile(old, new) call and what it returned
    tree, patch_list, verdict,  \* one validate_patches(patch_list, tree) call
    patterns, config,       \* the fields of a Predictor
    METRICS,                \* the counters of the global metrics collector
    now,                    \* the monotonic clock read by Instant::now(), one tick a call
    inserted,               \* history: how many keys learn has created
    observed,               \* history: the (component_id, state_key) pairs learn has stored
    last,                   \* the latest call, its arguments and what it returned
    loaded,                 \* the Predictor returned by the latest load_from_json
    LOGGER,                 \* the global Logger: enabled, min_level, entries
    PREDICTORS,             \* the registry: handle -> Predictor
    NEXT_PREDICTOR_ID,      \* the atomic counter the handles are drawn from
    guards,                 \* the Ref / RefMut guards held on entries of PREDICTORS
    threads,                \* each host thread's call in progress
    history,                \* the calls that returned, in the order they returned
    shadow                  \* history: the registry had each call run alone, in commit order

RecVars == <<old, new, patches>>
PVVars == <<tree, patch_list, verdict>>
PredVars == <<patterns, config, now, inserted, observed, last, loaded>>
FfiVars == <<PREDICTORS, NEXT_PREDICTOR_ID, guards, threads, history, shadow>>
StaticVars == <<LOGGER, FfiVars>>
vars == <<old, new, patches, tree, patch_list, verdict, patterns, config, METRICS,
          now, inserted, observed, last, loaded, LOGGER,
          PREDICTORS, NEXT_PREDICTOR_ID, guards, threads, history, shadow>>

None == <<>>
Some(x) == <<x>>

Max(S) == CHOOSE m \in S : \A y \in S : y <= m

\* Every ordering of a finite set: the orders a HashMap iteration can take.
Perms(S) == {f \in [1..Cardinality(S) -> S] : \A i, j \in 1..Cardinality(S) : f[i] = f[j] => i = j}

\* All concatenations of one sequence from each set, in the order given.
RECURSIVE ProductAll(_)
ProductAll(sets) ==
    IF sets = <<>> THEN {<<>>}
    ELSE {a \o b : a \in sets[1], b \in ProductAll(Tail(sets))}

-----------------------------------------------------------------------------
(* path.rs *)

HEX_GAP == 268435456

\* A u32 of 2^31 or more is held as the value less 2^32, the integer with the
\* same 32 bits: 0x80000000 is -2147483648 and 0xffffffff is -1.

\* n * HEX_GAP in u32 arithmetic: the product modulo 2^32.
wrapping_mul_HEX_GAP(n) ==
    IF n % 16 < 8 THEN (n % 16) * HEX_GAP ELSE ((n % 16) - 16) * HEX_GAP

\* HexPath::child: index is 0-based.
child(path, index) == Append(path, wrapping_mul_HEX_GAP(index + 1))

\* HexPath::parent of a non-root path.
parent(path) == SubSeq(path, 1, Len(path) - 1)

-----------------------------------------------------------------------------
(* vdom.rs *)

VElement(tag, props, children, key, path) ==
    [type |-> "Element", tag |-> tag, props |-> props, children |-> children,
     key |-> key, path |-> path]

VText(content, path) == [type |-> "Text", content |-> content, path |-> path]

VNull(path) == [type |-> "Null", path |-> path]

\* VNode::key: only an element carries a key.
key(node) == IF node.type = "Element" THEN node.key ELSE None

is_null(node) == node.type = "Null"

Create(path, node) == [type |-> "Create", path |-> path, node |-> node]
Remove(path) == [type |-> "Remove", path |-> path]
Replace(path, node) == [type |-> "Replace", path |-> path, node |-> node]
UpdateText(path, content) == [type |-> "UpdateText", path |-> path, content |-> content]
UpdateProps(path, props) == [type |-> "UpdateProps", path |-> path, props |-> props]
ReorderChildren(path, order) == [type |-> "ReorderChildren", path |-> path, order |-> order]

-----------------------------------------------------------------------------
(* validation.rs *)

max_tree_depth == 100
max_node_count == 10000
max_children_per_node == 1000
max_prop_key_length == 256
max_prop_value_length == 4096
max_text_length == 1024 * 1024

\* The sum of f over the indices in S.
RECURSIVE SumOver(_, _)
SumOver(f, S) ==
    IF S = {} THEN 0
    ELSE LET i == CHOOSE j \in S : TRUE IN f[i] + SumOver(f, S \ {i})

\* The first error of a sequence of results (the ? operator), "Ok" when there is none.
FirstErr(rs) ==
    LET bad == {i \in 1..Len(rs) : rs[i] # "Ok"}
    IN  IF bad = {} THEN "Ok" ELSE rs[CHOOSE i \in bad : \A j \in bad : i <= j]

max_json_size == 1024 * 1024

ValidationConfigDefault ==
    [max_tree_depth |-> max_tree_depth, max_node_count |-> max_node_count,
     max_children_per_node |-> max_children_per_node,
     max_prop_key_length |-> max_prop_key_length,
     max_prop_value_length |-> max_prop_value_length,
     max_text_length |-> max_text_length, max_json_size |-> max_json_size]

RECURSIVE validate_depth(_, _, _)
validate_depth(node, current_depth, cfg) ==
    IF current_depth > cfg.max_tree_depth THEN "TreeTooDeep"
    ELSE IF node.type = "Element"
         THEN FirstErr([i \in 1..Len(node.children) |->
                  IF node.children[i] = None THEN "Ok"
                  ELSE validate_depth(node.children[i][1], current_depth + 1, cfg)])
         ELSE "Ok"

RECURSIVE count_nodes(_)
count_nodes(node) ==
    IF node.type = "Element"
    THEN 1 + SumOver([i \in 1..Len(node.children) |->
                         IF node.children[i] = None THEN 0
                         ELSE count_nodes(node.children[i][1])],
                     {i \in 1..Len(node.children) : node.children[i] # None})
    ELSE 1

validate_node_count(node, cfg) ==
    IF count_nodes(node) > cfg.max_node_count THEN "TreeTooLarge" ELSE "Ok"

\* validate_content_sizes with the text cap applied to the text of the whole
\* tree met so far instead of to each text node.
RECURSIVE validate_content_sizes_TotalText(_, _)
validate_content_sizes_TotalText(node, cfg) ==
    IF node.type = "Text"
    THEN IF Len(node.content) > cfg.max_text_length THEN "TextTooLong" ELSE "Ok"
    ELSE IF node.type = "Element"
    THEN IF Len(node.children) > cfg.max_children_per_node THEN "TooManyChildren"
         ELSE IF \E kv \in node.props : Len(kv[1]) > cfg.max_prop_key_length
                                        \/ Len(kv[2]) > cfg.max_prop_value_length
              THEN "PropertyTooLong"
         ELSE IF SumOver([i \in 1..Len(node.children) |->
                             IF node.children[i] # None /\ node.children[i][1].type = "Text"
                             THEN Len(node.children[i][1].content) ELSE 0],
                         1..Len(node.children)) > cfg.max_text_length
              THEN "TextTooLong"
         ELSE FirstErr([i \in 1..Len(node.children) |->
                  IF node.children[i] = None THEN "Ok"
                  ELSE validate_content_sizes_TotalText(node.children[i][1], cfg)])
    ELSE "Ok"

RECURSIVE validate_content_sizes(_, _)
validate_content_sizes(node, cfg) ==
    IF node.type = "Text"
    THEN IF Len(node.content) > cfg.max_text_length THEN "TextTooLong" ELSE "Ok"
    ELSE IF node.type = "Element"
    THEN IF Len(node.children) > cfg.max_children_per_node THEN "TooManyChildren"
         ELSE IF \E kv \in node.props : Len(kv[1]) > cfg.max_prop_key_length
                                        \/ Len(kv[2]) > cfg.max_prop_value_length
              THEN "PropertyTooLong"
         ELSE FirstErr([i \in 1..Len(node.children) |->
                  IF node.children[i] = None THEN "Ok"
                  ELSE validate_content_sizes(node.children[i][1], cfg)])
    ELSE "Ok"

\* VNode::validate
validate_with_config(node, cfg) ==
    FirstErr(<<validate_depth(node, 0, cfg), validate_node_count(node, cfg),
               validate_content_sizes(node, cfg)>>)

\* VNode::validate with ValidationConfig::default().
validate(node) == validate_with_config(node, ValidationConfigDefault)

\* A JSON text is held as its length in bytes and what serde_json::from_str
\* makes of it: None for a text that is no VNode, else Some(the VNode).
deserialize_vnode_safe(json, cfg) ==
    IF json.len > cfg.max_json_size THEN [ok |-> FALSE, error |-> "JsonTooLarge"]
    ELSE IF json.node = None THEN [ok |-> FALSE, error |-> "Serialization"]
    ELSE IF validate_with_config(json.node[1], cfg) # "Ok"
         THEN [ok |-> FALSE, error |-> validate_with_config(json.node[1], cfg)]
    ELSE [ok |-> TRUE, error |-> "Ok", node |-> json.node[1]]

-----------------------------------------------------------------------------
(* reconciler.rs.  The two loops of reconcile_children_by_path and the     *)
(* Remove loop of reconcile_keyed_children iterate a HashMap, whose order  *)
(* is unspecified: every operator below yields the SET of patch sequences  *)
(* the call can return.                                                    *)

\* A HashMap collected from (key, value) pairs keeps the last value of a key.

KeysOf(children) ==
    {key(children[i][1])[1] : i \in {j \in 1..Len(children) :
                                       children[j] # None /\ key(children[j][1]) # None}}

Keyed(children, k) ==
    children[Max({i \in 1..Len(children) :
                     children[i] # None /\ key(children[i][1]) = Some(k)})][1]

PathsOf(children) == {children[i][1].path : i \in {j \in 1..Len(children) : children[j] # None}}

ByPath(children, p) ==
    children[Max({i \in 1..Len(children) :
                     children[i] # None /\ children[i][1].path = p})][1]

RECURSIVE reconcile_node(_, _)
RECURSIVE reconcile_children(_, _)
RECURSIVE reconcile_children_by_path(_, _)
RECURSIVE reconcile_keyed_children(_, _)
RECURSIVE KeyedLoop(_, _, _, _)

\* reconcile_node with the early exit on identical nodes lost (the conditional
\* the source guards against being optimised away).
reconcile_node_NoEarlyExit(o, n) ==
    IF o.path # n.path THEN {<<Replace(n.path, n)>>}
    ELSE IF o.type = "Text" /\ n.type = "Text"
    THEN IF o.content # n.content THEN {<<UpdateText(n.path, n.content)>>} ELSE {<<>>}
    ELSE IF o.type = "Null" /\ n.type = "Null" THEN {<<>>}
    ELSE IF o.type = "Element" /\ n.type = "Element" /\ o.tag = n.tag
    THEN LET props == IF o.props # n.props THEN <<UpdateProps(n.path, n.props)>> ELSE <<>>
         IN  {props \o cs : cs \in reconcile_children(o, n)}
    ELSE {<<Replace(n.path, n)>>}

reconcile_node(o, n) ==
    IF o.path # n.path THEN {<<Replace(n.path, n)>>}
    ELSE IF o = n THEN {<<>>}
    ELSE IF o.type = "Text" /\ n.type = "Text"
    THEN IF o.content # n.content THEN {<<UpdateText(n.path, n.content)>>} ELSE {<<>>}
    ELSE IF o.type = "Null" /\ n.type = "Null" THEN {<<>>}
    ELSE IF o.type = "Element" /\ n.type = "Element" /\ o.tag = n.tag
    THEN LET props == IF o.props # n.props THEN <<UpdateProps(n.path, n.props)>> ELSE <<>>
         IN  {props \o cs : cs \in reconcile_children(o, n)}
    ELSE {<<Replace(n.path, n)>>}

reconcile_children(old_el, new_el) ==
    IF KeysOf(old_el.children) # {} \/ KeysOf(new_el.children) # {}
    THEN reconcile_keyed_children(old_el.children, new_el.children)
    ELSE reconcile_children_by_path(old_el.children, new_el.children)

reconcile_children_by_path(old_children, new_children) ==
    LET old_by_path == PathsOf(old_children)
        new_by_path == PathsOf(new_children)
        Visit(p) ==
            IF p \in old_by_path
            THEN reconcile_node(ByPath(old_children, p), ByPath(new_children, p))
            ELSE IF ~is_null(ByPath(new_children, p))
                 THEN {<<Create(p, ByPath(new_children, p))>>}
                 ELSE {<<>>}
        removed == {p \in old_by_path : p \notin new_by_path /\ ~is_null(ByPath(old_children, p))}
        Removes(ord) == [i \in 1..Len(ord) |-> Remove(ord[i])]
    IN  UNION {{first \o Removes(ord2) :
                   first \in ProductAll([i \in 1..Len(ord1) |-> Visit(ord1[i])]),
                   ord2 \in Perms(removed)} :
               ord1 \in Perms(new_by_path)}

\* The while loop over new_children at new_idx (1-based), old_idx being the
\* number of old children already consumed by unkeyed matching.
KeyedLoop(old_children, new_children, new_idx, old_idx) ==
    IF new_idx > Len(new_children) THEN {<<>>}
    ELSE IF new_children[new_idx] = None
    THEN KeyedLoop(old_children, new_children, new_idx + 1, old_idx)
    ELSE LET new_child == new_children[new_idx][1] IN
         IF key(new_child) # None
         THEN LET new_key == key(new_child)[1]
                  here == IF new_key \in KeysOf(old_children)
                          THEN reconcile_node(Keyed(old_children, new_key), new_child)
                          ELSE {<<Create(new_child.path, new_child)>>}
              IN  {a \o b : a \in here,
                            b \in KeyedLoop(old_children, new_children, new_idx + 1, old_idx)}
         ELSE LET rest == {i \in (old_idx + 1)..Len(old_children) : old_children[i] # None}
                  \* old_idx after skipping the None slots (0-based index of the next Some)
                  skipped == IF rest = {} THEN Len(old_children)
                             ELSE (CHOOSE i \in rest : \A j \in rest : i <= j) - 1
              IN  IF skipped < Len(old_children) /\ key(old_children[skipped + 1][1]) = None
                  THEN {a \o b : a \in reconcile_node(old_children[skipped + 1][1], new_child),
                                 b \in KeyedLoop(old_children, new_children, new_idx + 1, skipped + 1)}
                  ELSE {<<Create(new_child.path, new_child)>> \o b :
                            b \in KeyedLoop(old_children, new_children, new_idx + 1, skipped)}

reconcile_keyed_children(old_children, new_children) ==
    LET gone == KeysOf(old_children) \ KeysOf(new_children)
        Removes(ord) == [i \in 1..Len(ord) |-> Remove(Keyed(old_children, ord[i]).path)]
        keyed_idx == {i \in 1..Len(new_children) :
                         new_children[i] # None /\ key(new_children[i][1]) # None}
        new_key_order == [j \in 1..Cardinality(keyed_idx) |->
                             key(new_children[CHOOSE i \in keyed_idx :
                                 Cardinality({m \in keyed_idx : m <= i}) = j][1])[1]]
        reorder ==
            IF new_key_order # <<>> /\ new_children[1] # None
               /\ Len(new_children[1][1].path) >= 2
            THEN <<ReorderChildren(parent(new_children[1][1].path), new_key_order)>>
            ELSE <<>>
    IN  {a \o Removes(ord) \o reorder :
            a \in KeyedLoop(old_children, new_children, 1, 0), ord \in Perms(gone)}

\* reconcile: Err(kind) when a tree fails validation, else Ok(patches).
reconcile(o, n) ==
    IF validate(o) # "Ok" THEN {[ok |-> FALSE, error |-> validate(o), patches |-> <<>>]}
    ELSE IF validate(n) # "Ok" THEN {[ok |-> FALSE, error |-> validate(n), patches |-> <<>>]}
    ELSE {[ok |-> TRUE, error |-> "Ok", patches |-> ps] : ps \in reconcile_node(o, n)}

-----------------------------------------------------------------------------
(* The consumer of a patch stream.  The repository holds no applier (the   *)
(* patches are applied by the client runtime), so this one follows the     *)
(* patch descriptions of the specification: a patch addresses the node     *)
(* whose path equals its path; Remove empties the slot, keeping sibling    *)
(* indices; Create fills (or appends) the slot its last segment names      *)
(* under the node at its parent path; ReorderChildren puts the keyed       *)
(* children in the listed order.                                           *)

RECURSIVE FindNode(_, _)
FindNode(slot, p) ==
    IF slot = None THEN None
    ELSE IF slot[1].path = p THEN slot
    ELSE IF slot[1].type # "Element" THEN None
    ELSE LET hits == {i \in 1..Len(slot[1].children) : FindNode(slot[1].children[i], p) # None}
         IN  IF hits = {} THEN None
             ELSE FindNode(slot[1].children[CHOOSE i \in hits : \A j \in hits : i <= j], p)

RECURSIVE RewriteSlot(_, _, _)
RewriteSlot(slot, p, repl) ==
    IF slot = None THEN None
    ELSE IF slot[1].path = p THEN repl
    ELSE IF slot[1].type # "Element" THEN slot
    ELSE Some([slot[1] EXCEPT !.children =
                  [i \in 1..Len(@) |-> RewriteSlot(@[i], p, repl)]])

\* The children of an element with slot i (1-based) set to node.
PutChild(children, i, node) ==
    [j \in 1..(IF i > Len(children) THEN i ELSE Len(children)) |->
        IF j = i THEN Some(node) ELSE IF j <= Len(children) THEN children[j] ELSE None]

\* The children with the keyed ones rearranged to follow order.
Reordered(children, order) ==
    LET keyed_idx == {i \in 1..Len(children) : children[i] # None /\ key(children[i][1]) # None}
        Rank(i) == Cardinality({m \in keyed_idx : m <= i})
    IN  [i \in 1..Len(children) |->
            IF i \in keyed_idx /\ Rank(i) <= Len(order)
            THEN Some(Keyed(children, order[Rank(i)]))
            ELSE children[i]]

\* Whether the patch's target resolves in the tree held by slot.
Resolves(slot, patch) ==
    IF patch.type = "Create"
    THEN /\ patch.path # <<>>
         /\ FindNode(slot, parent(patch.path)) # None
         /\ FindNode(slot, parent(patch.path))[1].type = "Element"
         /\ patch.path[Len(patch.path)] % HEX_GAP = 0
    ELSE /\ FindNode(slot, patch.path) # None
         /\ patch.type = "UpdateText" => FindNode(slot, patch.path)[1].type = "Text"
         /\ patch.type \in {"UpdateProps", "ReorderChildren"}
                => FindNode(slot, patch.path)[1].type = "Element"
         /\ patch.type = "ReorderChildren"
                => \A i \in 1..Len(patch.order) :
                       patch.order[i] \in KeysOf(FindNode(slot, patch.path)[1].children)

ApplyPatch(slot, patch) ==
    LET target == FindNode(slot, patch.path)[1] IN
    CASE patch.type = "Replace" -> RewriteSlot(slot, patch.path, Some(patch.node))
      [] patch.type = "Remove" -> RewriteSlot(slot, patch.path, None)
      [] patch.type = "UpdateText" ->
            RewriteSlot(slot, patch.path, Some([target EXCEPT !.content = patch.content]))
      [] patch.type = "UpdateProps" ->
            RewriteSlot(slot, patch.path, Some([target EXCEPT !.props = patch.props]))
      [] patch.type = "ReorderChildren" ->
            RewriteSlot(slot, patch.path,
                Some([target EXCEPT !.children = Reordered(@, patch.order)]))
      [] patch.type = "Create" ->
            LET par == FindNode(slot, parent(patch.path))[1]
                i == patch.path[Len(patch.path)] \div HEX_GAP
            IN  RewriteSlot(slot, par.path,
                    Some([par EXCEPT !.children = PutChild(@, i, patch.node)]))

\* Patches applied left to right; ok is FALSE as soon as one does not resolve.
RECURSIVE ApplyAll(_, _)
ApplyAll(slot, ps) ==
    IF ps = <<>> THEN [ok |-> TRUE, tree |-> slot]
    ELSE IF ~Resolves(slot, ps[1]) THEN [ok |-> FALSE, tree |-> slot]
    ELSE ApplyAll(ApplyPatch(slot, ps[1]), Tail(ps))

-----------------------------------------------------------------------------
(* The trees handed to reconcile.  Paths are assigned as the transpiler    *)
(* assigns them: the root of a component at HexPath::root().child(0), a    *)
(* child in slot i at its parent's path.child(i).                          *)

MaxKids == 2

RootPath == child(<<>>, 0)

LeavesAt(p) ==
    { VText(<<"A">>, p), VText(<<"B">>, p), VNull(p),
      VElement("li", {}, <<>>, Some("k1"), p),
      VElement("li", {}, <<>>, Some("k2"), p) }

SlotsAt(p) == {None} \cup {Some(n) : n \in LeavesAt(p)}

KidsAt(p) ==
    UNION {{kids \in [1..n -> UNION {SlotsAt(child(p, i)) : i \in 0..(n - 1)}] :
               \A i \in 1..n : kids[i] \in SlotsAt(child(p, i - 1))} : n \in 0..MaxKids}

\* An element with more children than max_children_per_node.
TooWide == VElement("div", {}, [i \in 1..(max_children_per_node + 1) |-> None], None, RootPath)

RecTrees ==
    {VElement("ul", {}, kids, None, RootPath) : kids \in KidsAt(RootPath)}
    \cup { VElement("ul", {<<"class", <<"a">>>>}, <<>>, None, RootPath),
           VElement("ul", {}, <<>>, Some("r1"), RootPath),
           VElement("ul", {}, <<>>, Some("r2"), RootPath),
           VElement("ol", {}, <<>>, None, RootPath),
           VText(<<"A">>, RootPath), VText(<<"B">>, RootPath), VNull(RootPath),
           VElement("ul", {}, <<Some(VElement("li", {}, <<Some(VText(<<"A">>, child(child(RootPath, 0), 0)))>>,
                                              Some("k1"), child(RootPath, 0)))>>, None, RootPath),
           VElement("ul", {}, <<Some(VElement("li", {}, <<Some(VText(<<"B">>, child(child(RootPath, 0), 0)))>>,
                                              Some("k1"), child(RootPath, 0)))>>, None, RootPath),
           TooWide }

-----------------------------------------------------------------------------
(* patch_validator.rs.  This file addresses nodes by index paths           *)
(* (Vec<usize>, 0-based) and reads children[index] as a node: its trees    *)
(* hold no None slot and no Null node.                                     *)

max_path_depth == 100
max_path_index == 10000

validate_path(path) ==
    IF Len(path) > max_path_depth THEN "InvalidPatchPath"
    ELSE IF \E i \in 1..Len(path) : path[i] > max_path_index THEN "InvalidPatchPath"
    ELSE "Ok"

validate_text_content(content) ==
    IF Len(content) > max_text_length THEN "TextTooLong" ELSE "Ok"

validate_props(props) ==
    IF \E kv \in props : Len(kv[1]) > max_prop_key_length \/ Len(kv[2]) > max_prop_value_length
    THEN "PropertyTooLong" ELSE "Ok"

\* Ok(node) as [ok |-> TRUE, node |-> ...], Err(InvalidPatchPath) as ok = FALSE.
RECURSIVE get_node_at_path(_, _)
get_node_at_path(current, path) ==
    IF path = <<>> THEN [ok |-> TRUE, node |-> current]
    ELSE IF current.type = "Element"
    THEN IF path[1] >= Len(current.children)
         THEN [ok |-> FALSE, node |-> current]
         ELSE get_node_at_path(current.children[path[1] + 1][1], Tail(path))
    ELSE [ok |-> FALSE, node |-> current]

\* The applicability check of a patch that needs a target of one node type.
TargetCheck(t, path, wanted) ==
    LET r == get_node_at_path(t, path) IN
    IF ~r.ok THEN "InvalidPatchPath"
    ELSE IF wanted # "Any" /\ r.node.type # wanted THEN "PatchTypeMismatch"
    ELSE "Ok"

\* validate_patch's Create arm refusing an append (>= for >).
validate_patch_Create_NoAppend(patch, t) ==
    IF patch.path = <<>> THEN "InvalidPatchPath"
    ELSE LET parent_path == SubSeq(patch.path, 1, Len(patch.path) - 1)
             child_index == patch.path[Len(patch.path)]
             r == get_node_at_path(t, parent_path)
         IN  IF ~r.ok THEN "InvalidPatchPath"
             ELSE IF r.node.type # "Element" THEN "PatchTypeMismatch"
             ELSE IF child_index >= Len(r.node.children) THEN "InvalidPatchPath"
             ELSE "Ok"

validate_patch_Create(patch, t) ==
    IF patch.path = <<>> THEN "InvalidPatchPath"
    ELSE LET parent_path == SubSeq(patch.path, 1, Len(patch.path) - 1)
             child_index == patch.path[Len(patch.path)]
             r == get_node_at_path(t, parent_path)
         IN  IF ~r.ok THEN "InvalidPatchPath"
             ELSE IF r.node.type # "Element" THEN "PatchTypeMismatch"
             ELSE IF child_index > Len(r.node.children) THEN "InvalidPatchPath"
             ELSE "Ok"

validate_patch_Reorder(patch, t) ==
    LET r == get_node_at_path(t, patch.path) IN
    IF ~r.ok THEN "InvalidPatchPath"
    ELSE IF r.node.type # "Element" THEN "PatchTypeMismatch"
    ELSE IF \E i \in 1..Len(patch.order) : patch.order[i] \notin KeysOf(r.node.children)
         THEN "KeyNotFound"
    ELSE "Ok"

\* validate_patch with PatchValidatorConfig::default() (validate_applicability on).
validate_patch(patch, t) ==
    CASE patch.type = "UpdateText" ->
            FirstErr(<<validate_path(patch.path), validate_text_content(patch.content),
                       TargetCheck(t, patch.path, "Text")>>)
      [] patch.type = "UpdateProps" ->
            FirstErr(<<validate_path(patch.path), validate_props(patch.props),
                       TargetCheck(t, patch.path, "Element")>>)
      [] patch.type = "Replace" ->
            FirstErr(<<validate_path(patch.path), validate(patch.node),
                       TargetCheck(t, patch.path, "Any")>>)
      [] patch.type = "Create" ->
            FirstErr(<<validate_path(patch.path), validate(patch.node),
                       validate_patch_Create(patch, t)>>)
      [] patch.type = "Remove" ->
            FirstErr(<<validate_path(patch.path), TargetCheck(t, patch.path, "Any")>>)
      [] patch.type = "ReorderChildren" ->
            FirstErr(<<validate_path(patch.path), validate_patch_Reorder(patch, t)>>)
      [] patch.type = "UpdateTextTemplate" ->
            FirstErr(<<validate_path(patch.path),
                       IF patch.template_patch.template = <<>> THEN "InvalidVNode" ELSE "Ok",
                       TargetCheck(t, patch.path, "Text")>>)
      [] patch.type = "UpdatePropsTemplate" ->
            FirstErr(<<validate_path(patch.path),
                       IF patch.template_patch.template = <<>> THEN "InvalidVNode" ELSE "Ok",
                       TargetCheck(t, patch.path, "Element")>>)
      [] patch.type = "UpdateAttributeDynamic" ->
            FirstErr(<<validate_path(patch.path),
                       IF patch.attr_name = <<>> THEN "InvalidVNode" ELSE "Ok",
                       IF patch.template_patch.template = <<>> THEN "InvalidVNode" ELSE "Ok",
                       TargetCheck(t, patch.path, "Element")>>)

\* Each patch is validated against the tree as given, not as patched so far.
validate_patches(ps, t) == FirstErr([i \in 1..Len(ps) |-> validate_patch(ps[i], t)])

-----------------------------------------------------------------------------
(* Applying index-addressed patches, after the patch descriptions of the   *)
(* specification (the repository holds no applier): Create inserts a child *)
(* at the index its last component names (appending at the child count),   *)
(* Remove deletes the child, the others rewrite the node in place.         *)

RECURSIVE NodeAt(_, _)
NodeAt(t, path) ==
    IF path = <<>> THEN Some(t)
    ELSE IF t.type = "Element" /\ path[1] < Len(t.children)
         THEN NodeAt(t.children[path[1] + 1][1], Tail(path))
         ELSE None

\* What the specification requires of a patch's target in tree t.
Applicable(t, patch) ==
    IF patch.type = "Create"
    THEN /\ patch.path # <<>>
         /\ NodeAt(t, SubSeq(patch.path, 1, Len(patch.path) - 1)) # None
         /\ NodeAt(t, SubSeq(patch.path, 1, Len(patch.path) - 1))[1].type = "Element"
         /\ patch.path[Len(patch.path)]
                <= Len(NodeAt(t, SubSeq(patch.path, 1, Len(patch.path) - 1))[1].children)
    ELSE /\ NodeAt(t, patch.path) # None
         /\ patch.type = "UpdateText" => NodeAt(t, patch.path)[1].type = "Text"
         /\ patch.type \in {"UpdateProps", "ReorderChildren"}
                => NodeAt(t, patch.path)[1].type = "Element"
         /\ patch.type = "ReorderChildren"
                => \A i \in 1..Len(patch.order) :
                       patch.order[i] \in KeysOf(NodeAt(t, patch.path)[1].children)

RECURSIVE RewriteAt(_, _, _)
\* Tree t with the slot at path replaced by the slots in repl (none, one or two).
RewriteAt(t, path, repl) ==
    LET i == path[1] + 1 IN
    IF Len(path) = 1
    THEN [t EXCEPT !.children = SubSeq(@, 1, i - 1) \o repl \o SubSeq(@, i + 1, Len(@))]
    ELSE [t EXCEPT !.children[i] = Some(RewriteAt(@[1], Tail(path), repl))]

ApplyIndexed(t, patch) ==
    LET target == NodeAt(t, patch.path)[1]
        Put(node) == IF patch.path = <<>> THEN node ELSE RewriteAt(t, patch.path, <<Some(node)>>)
    IN
    CASE patch.type = "Replace" -> Put(patch.node)
      [] patch.type = "UpdateText" -> Put([target EXCEPT !.content = patch.content])
      [] patch.type = "UpdateProps" -> Put([target EXCEPT !.props = patch.props])
      [] patch.type = "ReorderChildren" ->
            Put([target EXCEPT !.children = Reordered(@, patch.order)])
      [] patch.type = "Remove" ->
            IF patch.path = <<>> THEN VNull(<<>>) ELSE RewriteAt(t, patch.path, <<>>)
      [] patch.type = "Create" ->
            LET par == NodeAt(t, SubSeq(patch.path, 1, Len(patch.path) - 1))[1]
                i == patch.path[Len(patch.path)]
            IN  IF i = Len(par.children)
                THEN IF Len(patch.path) = 1
                     THEN [t EXCEPT !.children = Append(@, Some(patch.node))]
                     ELSE RewriteAt(t, SubSeq(patch.path, 1, Len(patch.path) - 1),
                              <<Some([par EXCEPT !.children = Append(@, Some(patch.node))])>>)
                ELSE RewriteAt(t, patch.path, <<Some(patch.node), NodeAt(t, patch.path)>>)

\* TRUE iff every patch, applied in order, finds its target in the tree as it then stands.
RECURSIVE AppliesInOrder(_, _)
AppliesInOrder(t, ps) ==
    IF ps = <<>> THEN TRUE
    ELSE Applicable(t, ps[1]) /\ AppliesInOrder(ApplyIndexed(t, ps[1]), Tail(ps))

-----------------------------------------------------------------------------
(* The trees and patch lists handed to validate_patches. *)

MaxPatches == 2

TextA == <<"A">>
TextB == <<"B">>

Leaf(c) == VText(c, <<>>)

PVTrees ==
    { VElement("div", {}, <<Some(Leaf(TextA))>>, None, <<>>),
      VElement("div", {}, <<Some(VElement("span", {}, <<>>, None, <<>>))>>, None, <<>>),
      VElement("div", {}, <<Some(VElement("li", {}, <<>>, Some("k1"), <<>>)),
                            Some(Leaf(TextA))>>, None, <<>>),
      VElement("div", {}, <<>>, None, <<>>),
      Leaf(TextA) }

PVPatches ==
    { UpdateText(<<0>>, TextB), UpdateText(<<1>>, TextB), UpdateText(<<>>, TextB),
      UpdateProps(<<>>, {<<<<"c">>, <<"x">>>>}), UpdateProps(<<0>>, {}),
      Replace(<<0>>, VElement("span", {}, <<>>, None, <<>>)),
      Create(<<0>>, Leaf(TextB)), Create(<<1>>, Leaf(TextB)), Create(<<0, 0>>, Leaf(TextB)),
      Remove(<<0>>), Remove(<<1>>), Remove(<<max_path_index + 1>>),
      ReorderChildren(<<>>, <<"k1">>), ReorderChildren(<<>>, <<"k2">>) }

PVLists == UNION {[1..n -> PVPatches] : n \in 0..MaxPatches}

-----------------------------------------------------------------------------
(* serde_json::Value as the predictor reads it.  A Number is held as an    *)
(* integer big * 2^53 + d with |d| small, so that the values around 2^53,  *)
(* where u64 -> f64 starts to round, can be told apart without computing   *)
(* with 2^53 itself.  Floats with a fractional part are not modelled.      *)

JNull == [t |-> "Null"]
JBool(b) == [t |-> "Bool", b |-> b]
JString(s) == [t |-> "String", s |-> s]
JArray(items) == [t |-> "Array", items |-> items]
JNumber(big, d) == [t |-> "Number", big |-> big, d |-> d]

\* Number::as_f64 (n as f64): exact below 2^53; from 2^53 up the f64 grid has
\* a spacing of 2 and the cast rounds to nearest, ties to the even mantissa.
as_f64(v) ==
    IF v.big = 0 \/ v.d <= 0 \/ v.d % 2 = 0 THEN [big |-> v.big, d |-> v.d]
    ELSE IF v.d % 4 = 1 THEN [big |-> v.big, d |-> v.d - 1]
    ELSE [big |-> v.big, d |-> v.d + 1]

\* a < b on the f64 values as_f64 returns.
F64Less(a, b) == a.big < b.big \/ (a.big = b.big /\ a.d < b.d)

DigitChar == <<"0", "1", "2", "3", "4", "5", "6", "7", "8", "9">>

RECURSIVE Digits(_)
Digits(n) ==
    IF n < 10 THEN <<DigitChar[n + 1]>>
    ELSE Digits(n \div 10) \o <<DigitChar[(n % 10) + 1]>>

\* Number::to_string of an integer: 2^53 = 9007199254740992.
to_string(v) ==
    IF v.big = 0
    THEN IF v.d < 0 THEN <<"-">> \o Digits(0 - v.d) ELSE Digits(v.d)
    ELSE <<"9", "0", "0", "7", "1", "9", "9", "2", "5", "4", "7", "4", "0">> \o Digits(992 + v.d)

\* str::contains and str::replace (every non-overlapping match, left to right).
StartsWithAt(s, i, pat) ==
    i + Len(pat) - 1 <= Len(s) /\ SubSeq(s, i, i + Len(pat) - 1) = pat

contains(s, pat) == \E i \in 1..(Len(s) + 1) : StartsWithAt(s, i, pat)

RECURSIVE ReplaceFrom(_, _, _, _)
ReplaceFrom(s, i, pat, to) ==
    IF i > Len(s) THEN <<>>
    ELSE IF StartsWithAt(s, i, pat) THEN to \o ReplaceFrom(s, i + Len(pat), pat, to)
    ELSE <<s[i]>> \o ReplaceFrom(s, i + 1, pat, to)

replace(s, pat, to) == ReplaceFrom(s, 1, pat, to)

RECURSIVE Concat(_)
Concat(seqs) == IF seqs = <<>> THEN <<>> ELSE seqs[1] \o Concat(Tail(seqs))

-----------------------------------------------------------------------------
(* metrics.rs: the counters of METRICS.  The timing samples are wall-clock *)
(* durations and are left out.                                             *)

MetricsNew ==
    [reconcile_calls |-> 0, reconcile_errors |-> 0, total_patches_generated |-> 0,
     predictor_learns |-> 0, predictor_learn_errors |-> 0,
     predictor_predictions |-> 0, predictor_prediction_hits |-> 0,
     predictor_prediction_misses |-> 0,
     evictions_performed |-> 0, validation_failures |-> 0,
     current_predictors |-> 0, max_predictors |-> 0]

record_reconcile(m, patch_count, error) ==
    [m EXCEPT !.reconcile_calls = @ + 1,
              !.reconcile_errors = IF error THEN @ + 1 ELSE @,
              !.total_patches_generated = IF error THEN @ ELSE @ + patch_count]

record_prediction(m, hit) ==
    [m EXCEPT !.predictor_predictions = @ + 1,
              !.predictor_prediction_hits = IF hit THEN @ + 1 ELSE @,
              !.predictor_prediction_misses = IF hit THEN @ ELSE @ + 1]

record_learn(m, error) ==
    [m EXCEPT !.predictor_learns = @ + 1,
              !.predictor_learn_errors = IF error THEN @ + 1 ELSE @]

record_eviction(m, n) == [m EXCEPT !.evictions_performed = @ + n]

record_validation_failure(m) == [m EXCEPT !.validation_failures = @ + 1]

\* The two gauges are usize atomics.  A value is kept as the representative
\* of least magnitude of its class modulo 2^64, so -1 stands for 2^64 - 1,
\* which fetch_sub leaves when it runs on 0.  The compare-exchange loop on
\* max_predictors amounts to an atomic maximum.
record_predictor_created(m) ==
    LET current == m.current_predictors + 1
    IN  [m EXCEPT !.current_predictors = current,
                  !.max_predictors = IF current > @ THEN current ELSE @]

record_predictor_destroyed(m) == [m EXCEPT !.current_predictors = @ - 1]

\* What reconcile leaves in METRICS when it returns r.
ReconcileMetrics(m, r) ==
    IF r.ok THEN record_reconcile(m, Len(r.patches), FALSE)
    ELSE record_validation_failure(m)

-----------------------------------------------------------------------------
(* predictor.rs.  The store `patterns` is a HashMap<String, Vec<pattern>>: *)
(* a function from the keys in use to None (no entry) or Some(list).       *)
(* min_confidence is held in hundredths (0.7 is 70) and a confidence as    *)
(* the fraction num/den, compared by cross-multiplication.                 *)

StateChange(component_id, state_key, old_value, new_value) ==
    [component_id |-> component_id, state_key |-> state_key,
     old_value |-> old_value, new_value |-> new_value]

Prediction(state_change, predicted_patches, confidence, predicted_tree) ==
    [state_change |-> state_change, predicted_patches |-> predicted_patches,
     confidence |-> confidence, predicted_tree |-> predicted_tree]

detect_pattern_type(state_change) ==
    LET o == state_change.old_value
        n == state_change.new_value
    IN  IF o.t = "Bool" /\ n.t = "Bool" /\ o.b # n.b THEN "BooleanToggle"
        ELSE IF o.t = "Number" /\ n.t = "Number"
        THEN IF F64Less(as_f64(o), as_f64(n)) THEN "NumericIncrement"
             ELSE IF F64Less(as_f64(n), as_f64(o)) THEN "NumericDecrement"
             ELSE "Literal"
        ELSE "Literal"

make_pattern_key(state_change) ==
    state_change.component_id \o <<":", ":">> \o state_change.state_key

\* std::mem::size_of of the types estimate_size and estimate_memory_usage
\* measure, on a 64-bit target.
SizeOfVText == 48
SizeOfVElement == 144
SizeOfVNull == 24
SizeOfHashMap == 48
SizeOfVec == 24
SizeOfPredictionPattern == 408
SizeOfPatch == 256

\* VNode::estimate_size (validation.rs), a String's capacity taken as its length.
RECURSIVE estimate_size(_)
estimate_size(node) ==
    IF node.type = "Text" THEN SizeOfVText + Len(node.content)
    ELSE IF node.type = "Element"
    THEN SizeOfVElement + Len(node.tag)
         + (IF node.key = None THEN 0 ELSE Len(node.key[1]))
         + SumOver([kv \in node.props |-> Len(kv[1]) + Len(kv[2])], node.props)
         + SumOver([i \in 1..Len(node.children) |->
                       IF node.children[i] = None THEN 0
                       ELSE estimate_size(node.children[i][1])],
                   1..Len(node.children))
    ELSE SizeOfVNull

KeysIn(pats) == {k \in DOMAIN pats : pats[k] # None}

estimate_memory_usage(pats) ==
    SizeOfHashMap
    + SumOver([k \in KeysIn(pats) |->
                  Len(k) + SizeOfVec
                  + SumOver([i \in 1..Len(pats[k][1]) |->
                                LET pattern == pats[k][1][i] IN
                                SizeOfPredictionPattern + Len(pattern.state_change_key)
                                + Len(pattern.patches) * SizeOfPatch
                                + (IF pattern.old_tree = None THEN 0
                                   ELSE estimate_size(pattern.old_tree[1]))
                                + (IF pattern.new_tree = None THEN 0
                                   ELSE estimate_size(pattern.new_tree[1]))],
                            1..Len(pats[k][1]))],
              KeysIn(pats))

\* Instant::elapsed().as_secs() of a stamp, read when the clock shows t.
TicksPerSecond == 2

elapsed_secs(stamp, t) == (t - stamp) \div TicksPerSecond

\* The score closure shared by evict_state_keys and find_key_to_evict.
KeyScore(list, cfg, t) ==
    IF cfg.eviction_policy = "LeastFrequentlyUsed"
    THEN SumOver([i \in 1..Len(list) |-> list[i].observation_count], 1..Len(list))
    ELSE IF list = <<>> THEN 0
    ELSE IF cfg.eviction_policy = "LeastRecentlyUsed"
    THEN Max({elapsed_secs(list[i].last_accessed, t) : i \in 1..Len(list)})
    ELSE Max({elapsed_secs(list[i].created_at, t) : i \in 1..Len(list)})

Without(pats, gone) == [k \in DOMAIN pats |-> IF k \in gone THEN None ELSE pats[k]]

\* evict_state_keys with no eviction recorded in METRICS.
evict_state_keys_Uncounted(pats, cfg, t) ==
    LET target_count == (cfg.max_state_keys * 9) \div 10
        to_remove == Cardinality(KeysIn(pats)) - target_count
    IN  IF Cardinality(KeysIn(pats)) <= target_count THEN {[patterns |-> pats, evicted |-> 0]}
        ELSE {[patterns |-> Without(pats, gone), evicted |-> 0] :
                 gone \in {g \in SUBSET KeysIn(pats) : Cardinality(g) = to_remove}}

\* evict_state_keys with the limit itself as its target, not nine tenths of it.
evict_state_keys_ToLimit(pats, cfg, t) ==
    LET target_count == cfg.max_state_keys
        to_remove == Cardinality(KeysIn(pats)) - target_count
        score(k) == KeyScore(pats[k][1], cfg, t)
        NotAfter(a, b) == IF cfg.eviction_policy = "LeastFrequentlyUsed"
                          THEN score(a) <= score(b) ELSE score(a) >= score(b)
    IN  IF Cardinality(KeysIn(pats)) <= target_count THEN {[patterns |-> pats, evicted |-> 0]}
        ELSE {[patterns |-> Without(pats, gone), evicted |-> to_remove] :
                 gone \in {g \in SUBSET KeysIn(pats) :
                              /\ Cardinality(g) = to_remove
                              /\ \A a \in g, b \in KeysIn(pats) \ g : NotAfter(a, b)}}

\* evict_state_keys: the keys are scored in HashMap order and stably sorted,
\* so among keys of equal score any may come first.  Every outcome is the
\* store with to_remove keys gone, none of them sorting after a key kept.
evict_state_keys(pats, cfg, t) ==
    LET target_count == (cfg.max_state_keys * 9) \div 10
        to_remove == Cardinality(KeysIn(pats)) - target_count
        score(k) == KeyScore(pats[k][1], cfg, t)
        NotAfter(a, b) == IF cfg.eviction_policy = "LeastFrequentlyUsed"
                          THEN score(a) <= score(b) ELSE score(a) >= score(b)
    IN  IF Cardinality(KeysIn(pats)) <= target_count THEN {[patterns |-> pats, evicted |-> 0]}
        ELSE {[patterns |-> Without(pats, gone), evicted |-> to_remove] :
                 gone \in {g \in SUBSET KeysIn(pats) :
                              /\ Cardinality(g) = to_remove
                              /\ \A a \in g, b \in KeysIn(pats) \ g : NotAfter(a, b)}}

\* find_key_to_evict: min_by_key over the HashMap, the first minimum in its
\* (unspecified) iteration order: any key of least score.
find_key_to_evict(pats, cfg, t) ==
    {k \in KeysIn(pats) :
        \A j \in KeysIn(pats) : KeyScore(pats[k][1], cfg, t) <= KeyScore(pats[j][1], cfg, t)}

\* The while loop of evict_to_memory_limit, n keys evicted so far.
RECURSIVE EvictLoop(_, _, _, _)
EvictLoop(pats, cfg, t, n) ==
    IF estimate_memory_usage(pats) > (cfg.max_memory_bytes * 9) \div 10 /\ KeysIn(pats) # {}
    THEN UNION {EvictLoop(Without(pats, {k}), cfg, t, n + 1) : k \in find_key_to_evict(pats, cfg, t)}
    ELSE {[patterns |-> pats, evicted |-> n]}

evict_to_memory_limit(pats, cfg, t) ==
    IF estimate_memory_usage(pats) <= (cfg.max_memory_bytes * 9) \div 10
    THEN {[patterns |-> pats, evicted |-> 0]}
    ELSE EvictLoop(pats, cfg, t, 0)

enforce_memory_limits(pats, cfg, t) ==
    LET first == IF Cardinality(KeysIn(pats)) > cfg.max_state_keys
                 THEN evict_state_keys(pats, cfg, t)
                 ELSE {[patterns |-> pats, evicted |-> 0]}
    IN  UNION {{[patterns |-> b.patterns, evicted |-> a.evicted + b.evicted] :
                   b \in IF estimate_memory_usage(a.patterns) > cfg.max_memory_bytes
                         THEN evict_to_memory_limit(a.patterns, cfg, t)
                         ELSE {[patterns |-> a.patterns, evicted |-> 0]}} :
               a \in first}

\* Two patch lists compared by their lengths alone.
SameShape_LengthOnly(a, b) == Len(a) = Len(b)

\* The discriminants of two patch lists agree position by position.
SameShape(a, b) == Len(a) = Len(b) /\ \A i \in 1..Len(a) : a[i].type = b[i].type

\* truncate(keep) with no sort before it.
SortDescTruncate_NoSort(list, keys, keep) ==
    SubSeq(list, 1, IF keep < Len(list) THEN keep ELSE Len(list))

\* The same sort, but one that puts the later of two equal keys first.
SortDescTruncate_LaterFirst(list, keys, keep) ==
    LET rank(i) == 1 + Cardinality({j \in 1..Len(list) :
                                       keys[j] > keys[i] \/ (keys[j] = keys[i] /\ j > i)})
        sorted == [r \in 1..Len(list) |-> list[CHOOSE i \in 1..Len(list) : rank(i) = r]]
    IN  SubSeq(sorted, 1, IF keep < Len(list) THEN keep ELSE Len(list))

\* sort_by_key(|p| Reverse(keys[p])), a stable sort, then truncate(keep).
SortDescTruncate(list, keys, keep) ==
    LET rank(i) == 1 + Cardinality({j \in 1..Len(list) :
                                       keys[j] > keys[i] \/ (keys[j] = keys[i] /\ j < i)})
        sorted == [r \in 1..Len(list) |-> list[CHOOSE i \in 1..Len(list) : rank(i) = r]]
    IN  SubSeq(sorted, 1, IF keep < Len(list) THEN keep ELSE Len(list))

\* learn from the pattern key on: the reconcile call returned Ok(the_patches).
learn_store(pats, cfg, state_change, old_tree, new_tree, the_patches, t) ==
    LET pattern_key == make_pattern_key(state_change)
        pattern_type == detect_pattern_type(state_change)
        Store(e) ==
            LET list == IF e.patterns[pattern_key] = None THEN <<>> ELSE e.patterns[pattern_key][1]
                existing == {i \in 1..Len(list) : /\ list[i].pattern_type = pattern_type
                                                  /\ SameShape(list[i].patches, the_patches)}
                idx == CHOOSE i \in existing : \A j \in existing : i <= j
                pushed == Append(list,
                             [state_change_key |-> pattern_key, pattern_type |-> pattern_type,
                              patches |-> the_patches, observation_count |-> 1,
                              old_tree |-> Some(old_tree), new_tree |-> Some(new_tree),
                              last_accessed |-> t, created_at |-> t,
                              predictions_made |-> 0, predictions_correct |-> 0,
                              predictions_incorrect |-> 0])
                sort_keys == [i \in 1..Len(pushed) |->
                                 IF cfg.eviction_policy = "LeastFrequentlyUsed"
                                 THEN pushed[i].observation_count
                                 ELSE IF cfg.eviction_policy = "LeastRecentlyUsed"
                                 THEN pushed[i].last_accessed
                                 ELSE pushed[i].created_at]
                updated ==
                    IF existing # {}
                    THEN [list EXCEPT ![idx] =
                             [@ EXCEPT !.observation_count = @ + 1,
                                       !.old_tree = Some(old_tree),
                                       !.new_tree = Some(new_tree),
                                       !.last_accessed = t]]
                    ELSE IF Len(pushed) > cfg.max_patterns_per_key
                    THEN SortDescTruncate(pushed, sort_keys, cfg.max_patterns_per_key)
                    ELSE pushed
            IN  [ok |-> TRUE, error |-> "Ok",
                 patterns |-> [e.patterns EXCEPT ![pattern_key] = Some(updated)],
                 evicted |-> e.evicted,
                 created |-> IF e.patterns[pattern_key] = None THEN 1 ELSE 0,
                 patch_count |-> Len(the_patches)]
    IN  {Store(e) : e \in enforce_memory_limits(pats, cfg, t)}

\* What learn returns and leaves behind when reconcile returned Err(error).
learn_rejected(pats, error) ==
    [ok |-> FALSE, error |-> error, patterns |-> pats,
     evicted |-> 0, created |-> 0, patch_count |-> 0]

\* learn enforcing the memory limits before it reconciles the trees.
learn_EnforceFirst(pats, cfg, state_change, old_tree, new_tree, t) ==
    UNION {IF r.ok
           THEN learn_store(pats, cfg, state_change, old_tree, new_tree, r.patches, t)
           ELSE {[learn_rejected(e.patterns, r.error) EXCEPT !.evicted = e.evicted] :
                    e \in enforce_memory_limits(pats, cfg, t)} :
           r \in reconcile(old_tree, new_tree)}

\* learn at clock reading t: every outcome the call can have.
learn(pats, cfg, state_change, old_tree, new_tree, t) ==
    UNION {IF r.ok
           THEN learn_store(pats, cfg, state_change, old_tree, new_tree, r.patches, t)
           ELSE {learn_rejected(pats, r.error)} :
           r \in reconcile(old_tree, new_tree)}

\* METRICS after a learn with outcome r.
LearnMetrics(m, r) ==
    IF r.ok
    THEN record_learn(record_eviction(record_reconcile(m, r.patch_count, FALSE), r.evicted), FALSE)
    ELSE record_learn(record_eviction(record_validation_failure(m), r.evicted), TRUE)

\* find_text_patches_recursive descending no further than the node it is given.
find_text_patches_recursive_NoDescent(node, old_text, new_text, path) ==
    IF node.type = "Text" /\ contains(node.content, old_text)
    THEN <<UpdateText(path, replace(node.content, old_text, new_text))>>
    ELSE <<>>

\* find_text_patches_recursive: path is the Vec<usize> of child indices from
\* the root (0-based), and every child is read as a node.
RECURSIVE find_text_patches_recursive(_, _, _, _)
find_text_patches_recursive(node, old_text, new_text, path) ==
    IF node.type = "Text"
    THEN IF contains(node.content, old_text)
         THEN <<UpdateText(path, replace(node.content, old_text, new_text))>>
         ELSE <<>>
    ELSE Concat([i \in 1..Len(node.children) |->
                    find_text_patches_recursive(node.children[i][1], old_text, new_text,
                                                Append(path, i - 1))])

find_and_replace_number_text(t, state_change, new_text) ==
    IF state_change.old_value.t # "Number" THEN None
    ELSE LET found == find_text_patches_recursive(t, to_string(state_change.old_value),
                                                  new_text, <<>>)
         IN  IF found = <<>> THEN None ELSE Some(found)

BuiltinConfidence == [num |-> 85, den |-> 100]

predict_builtin_pattern(state_change, current_tree, pattern_type) ==
    IF pattern_type \in {"NumericIncrement", "NumericDecrement"}
       /\ state_change.new_value.t = "Number"
    THEN LET found == find_and_replace_number_text(current_tree, state_change,
                                                   to_string(state_change.new_value))
         IN  IF found = None THEN None
             ELSE Some(Prediction(state_change, found[1], BuiltinConfidence, None))
    ELSE None

\* max_by_key(|p| p.observation_count) over the indices in among: the last maximum.
most_observed(list, among) ==
    CHOOSE i \in among : \A j \in among :
        list[j].observation_count < list[i].observation_count
        \/ (list[j].observation_count = list[i].observation_count /\ j <= i)

\* total_observations summed over every pattern of the key, whatever its type.
total_observations_AllTypes(list, matching_indices) ==
    SumOver([i \in 1..Len(list) |-> list[i].observation_count], 1..Len(list))

total_observations(list, matching_indices) ==
    SumOver([i \in 1..Len(list) |-> list[i].observation_count], matching_indices)

adapt_patches(the_patches, current_tree) == the_patches

\* predict: [patterns, prediction, hit], hit being what record_prediction is told.
predict(pats, cfg, state_change, current_tree) ==
    LET pattern_key == make_pattern_key(state_change)
        requested_pattern_type == detect_pattern_type(state_change)
        list == IF pats[pattern_key] = None THEN <<>> ELSE pats[pattern_key][1]
        matching_indices == {i \in 1..Len(list) : list[i].pattern_type = requested_pattern_type}
        best_idx == most_observed(list, matching_indices)
        total == total_observations(list, matching_indices)
        builtin == predict_builtin_pattern(state_change, current_tree, requested_pattern_type)
    IN  IF /\ matching_indices # {}
           /\ list[best_idx].observation_count * 100 >= cfg.min_confidence * total
        THEN [patterns |-> [pats EXCEPT ![pattern_key] =
                               Some([list EXCEPT ![best_idx].predictions_made = @ + 1])],
              prediction |-> Some(Prediction(state_change,
                                     adapt_patches(list[best_idx].patches, current_tree),
                                     [num |-> list[best_idx].observation_count, den |-> total],
                                     list[best_idx].new_tree)),
              hit |-> TRUE]
        ELSE [patterns |-> pats, prediction |-> builtin, hit |-> builtin # None]

RECURSIVE HasManyProps(_)
HasManyProps(node) ==
    /\ node.type = "Element"
    /\ \/ Cardinality(node.props) >= 2
       \/ \E i \in 1..Len(node.children) :
              node.children[i] # None /\ HasManyProps(node.children[i][1])

\* trees_match compares the JSON texts.  serde writes a HashMap in its
\* iteration order, which two equal maps need not share: equal trees holding
\* an element of two or more props may or may not serialise alike.
trees_match(tree1, tree2) ==
    IF tree1 # tree2 THEN {FALSE}
    ELSE IF HasManyProps(tree1) THEN {TRUE, FALSE}
    ELSE {TRUE}

\* verify_prediction: every [patterns, result] the call can produce.
verify_prediction(pats, state_change, predicted_tree, actual_tree) ==
    LET pattern_key == make_pattern_key(state_change)
        list == IF pats[pattern_key] = None THEN <<>> ELSE pats[pattern_key][1]
        idx == most_observed(list, 1..Len(list))
    IN  IF list = <<>> THEN {[patterns |-> pats, result |-> FALSE]}
        ELSE {[patterns |-> [pats EXCEPT ![pattern_key] =
                                Some(IF matches
                                     THEN [list EXCEPT ![idx].predictions_correct = @ + 1]
                                     ELSE [list EXCEPT ![idx].predictions_incorrect = @ + 1])],
               result |-> matches] :
                 matches \in trees_match(predicted_tree, actual_tree)}

\* The sum of one counter over every pattern of the store.
PatternSum(pats, field) ==
    SumOver([k \in KeysIn(pats) |->
                SumOver([i \in 1..Len(pats[k][1]) |-> pats[k][1][i][field]],
                        1..Len(pats[k][1]))], KeysIn(pats))

\* stats: the counts and the hit rate (a ratio num/den); avg_confidence and
\* the two fields that repeat another are left out.
stats(pats) ==
    [unique_state_keys |-> Cardinality(KeysIn(pats)),
     total_patterns |-> SumOver([k \in KeysIn(pats) |-> Len(pats[k][1])], KeysIn(pats)),
     total_observations |->
         SumOver([k \in KeysIn(pats) |->
                     SumOver([i \in 1..Len(pats[k][1]) |-> pats[k][1][i].observation_count],
                             1..Len(pats[k][1]))], KeysIn(pats)),
     estimated_memory_bytes |-> estimate_memory_usage(pats),
     total_predictions |-> PatternSum(pats, "predictions_made"),
     correct_predictions |-> PatternSum(pats, "predictions_correct"),
     incorrect_predictions |-> PatternSum(pats, "predictions_incorrect"),
     hit_rate |-> IF PatternSum(pats, "predictions_made") > 0
                  THEN [num |-> PatternSum(pats, "predictions_correct"),
                        den |-> PatternSum(pats, "predictions_made")]
                  ELSE [num |-> 0, den |-> 1]]

\* The JSON document serde writes for a pattern: the two Instant fields are
\* #[serde(skip)].
PatternToJson(pattern) ==
    [state_change_key |-> pattern.state_change_key, pattern_type |-> pattern.pattern_type,
     patches |-> pattern.patches, observation_count |-> pattern.observation_count,
     old_tree |-> pattern.old_tree, new_tree |-> pattern.new_tree,
     predictions_made |-> pattern.predictions_made,
     predictions_correct |-> pattern.predictions_correct,
     predictions_incorrect |-> pattern.predictions_incorrect]

\* save_to_json: the patterns object holds one member per key of the store.
save_to_json(pats, cfg) ==
    [patterns |-> {<<k, [i \in 1..Len(pats[k][1]) |-> PatternToJson(pats[k][1][i])]>> :
                      k \in KeysIn(pats)},
     config |-> cfg]

\* A pattern read back: the skipped fields take their default, Instant::now().
PatternFromJson(doc, t) ==
    [state_change_key |-> doc.state_change_key, pattern_type |-> doc.pattern_type,
     patches |-> doc.patches, observation_count |-> doc.observation_count,
     old_tree |-> doc.old_tree, new_tree |-> doc.new_tree,
     last_accessed |-> t, created_at |-> t,
     predictions_made |-> doc.predictions_made,
     predictions_correct |-> doc.predictions_correct,
     predictions_incorrect |-> doc.predictions_incorrect]

\* load_from_json that starts every pattern's observation count afresh.
load_from_json_FreshCounts(json, keys, t) ==
    [patterns |-> [k \in keys |->
                      IF \E m \in json.patterns : m[1] = k
                      THEN LET docs == (CHOOSE m \in json.patterns : m[1] = k)[2]
                           IN  Some([i \in 1..Len(docs) |->
                                        [PatternFromJson(docs[i], t) EXCEPT !.observation_count = 1]])
                      ELSE None],
     config |-> json.config]

\* load_from_json at clock reading t, the store ranging over the keys in use.
load_from_json(json, keys, t) ==
    [patterns |-> [k \in keys |->
                      IF \E m \in json.patterns : m[1] = k
                      THEN LET docs == (CHOOSE m \in json.patterns : m[1] = k)[2]
                           IN  Some([i \in 1..Len(docs) |-> PatternFromJson(docs[i], t)])
                      ELSE None],
     config |-> json.config]

-----------------------------------------------------------------------------
(* The calls made on a predictor: state changes, trees and configurations. *)

MaxCalls == 4

Num(d) == JNumber(0, d)

ChangeCount == StateChange(<<"c">>, <<"n">>, Num(1), Num(2))
ChangeFlag == StateChange(<<"d">>, <<"n">>, JBool(FALSE), JBool(TRUE))
ChangeName == StateChange(<<"e">>, <<"n">>, JString(<<"a">>), JString(<<"b">>))
ChangeDown == StateChange(<<"e">>, <<"n">>, Num(2), Num(1))

PredChanges == {ChangeCount, ChangeFlag, ChangeName, ChangeDown}

PatternKeys == {make_pattern_key(sc) : sc \in PredChanges}

TextC1 == VText(<<"C", "1">>, RootPath)
TextC2 == VText(<<"C", "2">>, RootPath)
EmptyDiv == VElement("div", {}, <<>>, None, RootPath)
TwoProps == VElement("div", {<<"id", <<"x">>>>, <<"class", <<"y">>>>}, <<>>, None, RootPath)

\* An element with a property name longer than max_prop_key_length.
LongProp ==
    VElement("div", {<<[i \in 1..(max_prop_key_length + 1) |-> "k"], <<"v">>>>}, <<>>, None, RootPath)

\* learn(state_change, old_tree, new_tree)
LearnCalls ==
    { <<ChangeCount, TextC1, TextC2>>, <<ChangeCount, TextC1, EmptyDiv>>,
      <<ChangeFlag, TextC1, TextC2>>, <<ChangeName, TwoProps, TwoProps>>,
      <<ChangeDown, TextC2, TextC1>>,
      <<ChangeCount, LongProp, TextC1>>, <<ChangeFlag, TextC1, LongProp>> }

\* verify_prediction(state_change, predicted_tree, actual_tree)
VerifyCalls ==
    {ChangeCount, ChangeName} \X {<<TextC2, TextC2>>, <<TextC2, TextC1>>, <<TwoProps, TwoProps>>}

\* PredictorConfig::default(), and three configurations with one limit tight each.
ConfigDefault ==
    [min_confidence |-> 70, max_patterns_per_key |-> 100, max_state_keys |-> 1000,
     max_memory_bytes |-> 100 * 1024 * 1024, eviction_policy |-> "LeastFrequentlyUsed"]

Configs ==
    { ConfigDefault,
      [ConfigDefault EXCEPT !.min_confidence = 50, !.max_state_keys = 1,
                            !.eviction_policy = "LeastRecentlyUsed"],
      [ConfigDefault EXCEPT !.max_memory_bytes = 1000, !.max_patterns_per_key = 1,
                            !.eviction_policy = "OldestFirst"] }

\* Predictor::with_config: no entry under any key.
NewStore == [k \in PatternKeys |-> None]

NoCall == [op |-> "none"]

Idle == "Idle"

PredIdle ==
    /\ patterns = Idle /\ config = Idle /\ now = Idle
    /\ inserted = Idle /\ observed = Idle /\ last = Idle /\ loaded = Idle

-----------------------------------------------------------------------------
(* One reconcile call. *)

Pending == [ok |-> FALSE, error |-> "Pending", patches |-> <<>>]

RecIdle == old = Idle /\ new = Idle /\ patches = Idle
PVIdle == tree = Idle /\ patch_list = Idle /\ verdict = Idle
FfiIdle ==
    /\ PREDICTORS = Idle /\ NEXT_PREDICTOR_ID = Idle /\ guards = Idle
    /\ threads = Idle /\ history = Idle /\ shadow = Idle
StaticIdle == LOGGER = Idle /\ FfiIdle

RecInit ==
    /\ StaticIdle
    /\ old \in RecTrees
    /\ new \in RecTrees
    /\ patches = Pending
    /\ METRICS = MetricsNew
    /\ PVIdle /\ PredIdle

Reconcile ==
    /\ patches = Pending
    /\ patches' \in reconcile(old, new)
    /\ METRICS' = ReconcileMetrics(METRICS, patches')
    /\ UNCHANGED <<old, new, PVVars, PredVars, StaticVars>>

RecNext == Reconcile

SpecReconcile == RecInit /\ [][RecNext]_vars

-----------------------------------------------------------------------------
(* One validate_patches call. *)

PVInit ==
    /\ StaticIdle
    /\ tree \in PVTrees
    /\ patch_list \in PVLists
    /\ verdict = "Pending"
    /\ METRICS = MetricsNew
    /\ RecIdle /\ PredIdle

ValidatePatches ==
    /\ verdict = "Pending"
    /\ verdict' = validate_patches(patch_list, tree)
    /\ UNCHANGED <<tree, patch_list, METRICS, RecVars, PredVars, StaticVars>>

PVNext == ValidatePatches

SpecValidator == PVInit /\ [][PVNext]_vars

-----------------------------------------------------------------------------
(* A predictor and the calls made on it, one clock tick apart. *)

Init ==
    /\ StaticIdle
    /\ patterns = NewStore
    /\ config \in Configs
    /\ METRICS = MetricsNew
    /\ now = 0
    /\ inserted = 0
    /\ observed = {}
    /\ last = NoCall
    /\ loaded = None
    /\ RecIdle /\ PVIdle

Learn(state_change, old_tree, new_tree) ==
    /\ now < MaxCalls
    /\ \E r \in learn(patterns, config, state_change, old_tree, new_tree, now) :
          /\ patterns' = r.patterns
          /\ METRICS' = LearnMetrics(METRICS, r)
          /\ inserted' = inserted + r.created
          /\ observed' = IF r.ok
                         THEN observed \cup {<<state_change.component_id, state_change.state_key>>}
                         ELSE observed
          /\ last' = [op |-> "learn", state_change |-> state_change, old_tree |-> old_tree,
                      new_tree |-> new_tree, ok |-> r.ok, error |-> r.error]
    /\ now' = now + 1
    /\ UNCHANGED <<config, loaded, RecVars, PVVars, StaticVars>>

PredictCall(state_change, current_tree) ==
    LET r == predict(patterns, config, state_change, current_tree) IN
    /\ patterns' = r.patterns
    /\ METRICS' = record_prediction(METRICS, r.hit)
    /\ last' = [op |-> "predict", state_change |-> state_change,
                current_tree |-> current_tree, prediction |-> r.prediction]
    /\ now' = now + 1
    /\ UNCHANGED <<config, inserted, observed, loaded, RecVars, PVVars, StaticVars>>

Predict(state_change, current_tree) ==
    /\ now < MaxCalls
    /\ PredictCall(state_change, current_tree)

VerifyPrediction(state_change, predicted_tree, actual_tree) ==
    /\ now < MaxCalls
    /\ \E r \in verify_prediction(patterns, state_change, predicted_tree, actual_tree) :
          /\ patterns' = r.patterns
          /\ last' = [op |-> "verify", state_change |-> state_change,
                      predicted_tree |-> predicted_tree, actual_tree |-> actual_tree,
                      result |-> r.result]
    /\ now' = now + 1
    /\ UNCHANGED <<config, METRICS, inserted, observed, loaded, RecVars, PVVars, StaticVars>>

\* load_from_json(save_to_json()): the round trip builds a second Predictor.
SaveLoad ==
    /\ now < MaxCalls
    /\ loaded' = Some(load_from_json(save_to_json(patterns, config), DOMAIN patterns, now))
    /\ last' = [op |-> "load"]
    /\ now' = now + 1
    /\ UNCHANGED <<patterns, config, METRICS, inserted, observed, RecVars, PVVars, StaticVars>>

Next ==
    \/ \E c \in LearnCalls : Learn(c[1], c[2], c[3])
    \/ \E sc \in PredChanges : Predict(sc, TextC1)
    \/ \E c \in VerifyCalls : VerifyPrediction(c[1], c[2][1], c[2][2])
    \/ SaveLoad

Spec == Init /\ [][Next]_vars

-----------------------------------------------------------------------------
(* One predict call that falls through to the built-in heuristic, on a     *)
(* fresh predictor and on one whose learned patterns are too evenly split. *)

BuiltinTrees ==
    { VText(<<"C", "1">>, RootPath), VText(<<"1", "1">>, RootPath),
      VText(<<"a", "b">>, RootPath), VText(<<"-", "1">>, RootPath),
      VElement("div", {}, <<>>, None, RootPath),
      VElement("div", {}, <<Some(VText(<<"C", "1">>, child(RootPath, 0))),
                            Some(VText(<<"x">>, child(RootPath, 1)))>>, None, RootPath),
      VElement("div", {}, <<Some(VText(<<"1", "0">>, child(RootPath, 0))),
                            Some(VElement("p", {},
                                     <<Some(VText(<<"2">>, child(child(RootPath, 1), 0))),
                                       Some(VText(<<"1", "2", "1">>, child(child(RootPath, 1), 1)))>>,
                                     None, child(RootPath, 1)))>>, None, RootPath),
      VElement("div", {}, <<Some(VElement("p", {}, <<>>, None, child(RootPath, 0))),
                            Some(VText(<<"0">>, child(RootPath, 1)))>>, None, RootPath) }

BuiltinValues == {Num(0 - 1), Num(0), Num(1), Num(2), Num(10), JBool(TRUE), JBool(FALSE),
                  JString(<<"1">>)}

BuiltinChanges ==
    {StateChange(<<"c">>, <<"n">>, o, n) : o \in BuiltinValues, n \in BuiltinValues}

\* The stores two learn calls with different outcomes leave under one key.
SplitStores ==
    UNION {{r2.patterns : r2 \in learn(r1.patterns, ConfigDefault, ChangeCount, TextC1, EmptyDiv, 1)} :
           r1 \in learn(NewStore, ConfigDefault, ChangeCount, TextC1, TextC2, 0)}

BuiltinInit ==
    /\ StaticIdle
    /\ patterns \in {NewStore} \cup SplitStores
    /\ config = ConfigDefault
    /\ METRICS = MetricsNew
    /\ now = 2
    /\ inserted = Cardinality(KeysIn(patterns))
    /\ observed = IF patterns = NewStore THEN {} ELSE {<<<<"c">>, <<"n">>>>}
    /\ last = NoCall
    /\ loaded = None
    /\ RecIdle /\ PVIdle

PredictOnce ==
    /\ last = NoCall
    /\ \E sc \in BuiltinChanges, t \in BuiltinTrees : PredictCall(sc, t)

BuiltinNext == PredictOnce

SpecBuiltin == BuiltinInit /\ [][BuiltinNext]_vars

-----------------------------------------------------------------------------
(* One detect_pattern_type call. *)

ClassifyValues ==
    {JNull, JBool(TRUE), JBool(FALSE), JString(<<"a">>), JString(<<"1">>), JArray(<<>>)}
    \cup {JNumber(0, d) : d \in (0 - 1)..2}
    \cup {JNumber(1, d) : d \in (0 - 1)..3}

ClassifyInit ==
    /\ StaticIdle
    /\ last = NoCall
    /\ METRICS = MetricsNew
    /\ patterns = Idle /\ config = Idle /\ now = Idle
    /\ inserted = Idle /\ observed = Idle /\ loaded = Idle
    /\ RecIdle /\ PVIdle

Classify ==
    /\ last = NoCall
    /\ \E o \in ClassifyValues, n \in ClassifyValues :
          last' = [op |-> "detect_pattern_type",
                   state_change |-> StateChange(<<"c">>, <<"n">>, o, n),
                   pattern_type |-> detect_pattern_type(StateChange(<<"c">>, <<"n">>, o, n))]
    /\ UNCHANGED <<patterns, config, METRICS, now, inserted, observed, loaded, RecVars, PVVars, StaticVars>>

ClassifyNext == Classify

SpecClassify == ClassifyInit /\ [][ClassifyNext]_vars

-----------------------------------------------------------------------------
(* Claims about the reconciler (SpecReconcile). *)

RECURSIVE Subtrees(_)
Subtrees(n) ==
    {n} \cup (IF n.type = "Element"
              THEN UNION {Subtrees(n.children[i][1]) :
                             i \in {j \in 1..Len(n.children) : n.children[j] # None}}
              ELSE {})

ReconcileDone == patches # Pending

\* C1: for every pair of trees that pass validation, reconcile returns Ok and
\* its patches, applied to old in emission order, yield a tree deep-equal to
\* new (keys, props, None slots and Null nodes included).
C1_PatchesTurnOldIntoNew ==
    (ReconcileDone /\ validate(old) = "Ok" /\ validate(new) = "Ok")
        => /\ patches.ok
           /\ ApplyAll(Some(old), patches.patches) = [ok |-> TRUE, tree |-> Some(new)]

\* C2: reconciling a valid tree with itself returns Ok with no patch, and the
\* comparison of a node with itself emits nothing at any depth of the tree.
C2_SelfReconcileIsEmpty ==
    (ReconcileDone /\ validate(old) = "Ok" /\ old = new)
        => /\ patches = [ok |-> TRUE, error |-> "Ok", patches |-> <<>>]
           /\ \A n \in Subtrees(new) : reconcile_node(n, n) = {<<>>}

\* A tree with keyed children two levels deep was reconciled with itself.
C2_Witness ==
    /\ ReconcileDone /\ old = new /\ patches.ok
    /\ old.type = "Element" /\ Cardinality(KeysOf(old.children)) = 2

-----------------------------------------------------------------------------
(* Claims about the patch validator (SpecValidator). *)

ValidateDone == verdict # "Pending"

\* The checks validate_patch makes of a patch by itself, whatever the tree.
WellFormed(patch) ==
    /\ validate_path(patch.path) = "Ok"
    /\ patch.type = "UpdateText" => validate_text_content(patch.content) = "Ok"
    /\ patch.type = "UpdateProps" => validate_props(patch.props) = "Ok"
    /\ patch.type \in {"Replace", "Create"} => validate(patch.node) = "Ok"

ValidCall ==
    /\ ValidateDone /\ validate(tree) = "Ok"
    /\ \A i \in 1..Len(patch_list) : WellFormed(patch_list[i])

-----------------------------------------------------------------------------
(* Claims about the predictor (Spec). *)

\* C4 as stated: unique_state_keys is the number of distinct (component_id,
\* state_key) pairs ever stored by a successful learn, less the keys evicted.
C4_KeysAreObservedLessEvicted ==
    stats(patterns).unique_state_keys = Cardinality(observed) - METRICS.evictions_performed

\* C4 amended: on a predictor created empty, unique_state_keys is the number
\* of keys successful learn calls have created (a key learned again after its
\* eviction is created again), less the keys evicted.
C4_KeysAreCreatedLessEvicted ==
    stats(patterns).unique_state_keys = inserted - METRICS.evictions_performed

\* A key was evicted and learned again.
C4_Witness ==
    /\ METRICS.evictions_performed > 0
    /\ inserted > Cardinality(observed)
    /\ last.op = "learn" /\ last.ok

\* C5: a learn call whose old or new tree fails validation returns that
\* validation error, adds one to the learn-error counter, leaves the pattern
\* store as it was and evicts nothing.
C5_InvalidLearnChangesNothing ==
    [][(last'.op = "learn" /\ now' # now
        /\ (validate(last'.old_tree) # "Ok" \/ validate(last'.new_tree) # "Ok"))
       => /\ ~last'.ok
          /\ last'.error = IF validate(last'.old_tree) # "Ok"
                           THEN validate(last'.old_tree) ELSE validate(last'.new_tree)
          /\ METRICS'.predictor_learn_errors = METRICS.predictor_learn_errors + 1
          /\ patterns' = patterns
          /\ METRICS'.evictions_performed = METRICS.evictions_performed]_vars

\* An invalid tree was refused while the store held more keys than max_state_keys.
C5_Witness ==
    /\ last.op = "learn" /\ ~last.ok /\ last.error = "PropertyTooLong"
    /\ Cardinality(KeysIn(patterns)) > config.max_state_keys

\* The patterns of the requested type under the key of the latest predict call.
AskedList == IF patterns[make_pattern_key(last.state_change)] = None THEN <<>>
             ELSE patterns[make_pattern_key(last.state_change)][1]

AskedCounts ==
    [i \in {j \in 1..Len(AskedList) :
               AskedList[j].pattern_type = detect_pattern_type(last.state_change)}
        |-> AskedList[i].observation_count]

Reaches == /\ DOMAIN AskedCounts # {}
           /\ \E i \in DOMAIN AskedCounts :
                 /\ \A j \in DOMAIN AskedCounts : AskedCounts[j] <= AskedCounts[i]
                 /\ AskedCounts[i] * 100
                       >= config.min_confidence * SumOver(AskedCounts, DOMAIN AskedCounts)

\* C6: predict takes, among the patterns of the requested type under the key,
\* one of highest observation count; its confidence is that count over the sum
\* of the counts of the patterns of that type; it returns that pattern's
\* patches and new tree if and only if the confidence is at least
\* min_confidence; a single pattern of the type has confidence 1.
C6_PredictReturnsMostObserved ==
    last.op = "predict" =>
        /\ (last.prediction # None /\ last.prediction[1].predicted_tree # None) <=> Reaches
        /\ Reaches =>
              \E i \in DOMAIN AskedCounts :
                 /\ \A j \in DOMAIN AskedCounts : AskedCounts[j] <= AskedCounts[i]
                 /\ last.prediction =
                       Some(Prediction(last.state_change, AskedList[i].patches,
                                [num |-> AskedCounts[i],
                                 den |-> SumOver(AskedCounts, DOMAIN AskedCounts)],
                                AskedList[i].new_tree))
                 /\ Cardinality(DOMAIN AskedCounts) = 1
                        => last.prediction[1].confidence.num = last.prediction[1].confidence.den

\* A learned prediction was returned for a key holding two patterns of the type.
C6_Witness ==
    /\ last.op = "predict" /\ last.prediction # None
    /\ last.prediction[1].predicted_tree # None
    /\ Cardinality(DOMAIN AskedCounts) = 2

KeyList(pats, state_change) ==
    IF pats[make_pattern_key(state_change)] = None THEN <<>>
    ELSE pats[make_pattern_key(state_change)][1]

\* The last of the patterns of highest observation count.
Favourite(list) ==
    Max({i \in 1..Len(list) : \A j \in 1..Len(list) :
            list[j].observation_count <= list[i].observation_count})

Counted(list, correct) ==
    IF correct
    THEN [list EXCEPT ![Favourite(list)].predictions_correct = @ + 1]
    ELSE [list EXCEPT ![Favourite(list)].predictions_incorrect = @ + 1]

\* C8: under a key that holds a pattern, verify_prediction returns true if and
\* only if the two trees are deep-equal, and it adds one to predictions_correct
\* (on true) or predictions_incorrect (on false) of the pattern of highest
\* observation count under the key and changes no other pattern or counter.
C8_TrueIffDeepEqual ==
    [][(last'.op = "verify" /\ now' # now /\ KeyList(patterns, last'.state_change) # <<>>)
       => /\ last'.result <=> (last'.predicted_tree = last'.actual_tree)
          /\ patterns' = [patterns EXCEPT ![make_pattern_key(last'.state_change)] =
                            Some(Counted(KeyList(patterns, last'.state_change), last'.result))]]_vars

-----------------------------------------------------------------------------
(* Claims about the built-in heuristic (SpecBuiltin). *)

\* Every index path (child indices from the root, 0-based) of a node of t.
RECURSIVE IndexPaths(_)
IndexPaths(t) ==
    {<<>>} \cup (IF t.type = "Element"
                 THEN UNION {{<<i - 1>> \o p : p \in IndexPaths(t.children[i][1])} :
                                i \in 1..Len(t.children)}
                 ELSE {})

\* The index paths of the text nodes of the tree of the latest predict call
\* whose content holds the decimal text of old_value.
TextHits ==
    {p \in IndexPaths(last.current_tree) :
        /\ NodeAt(last.current_tree, p)[1].type = "Text"
        /\ contains(NodeAt(last.current_tree, p)[1].content,
                    to_string(last.state_change.old_value))}

-----------------------------------------------------------------------------
(* Claims about the pattern-type classifier (SpecClassify). *)

\* a < b on the integers two Numbers hold.
ValueLess(a, b) == a.big < b.big \/ (a.big = b.big /\ a.d < b.d)

\* C10: detect_pattern_type returns BooleanToggle for two differing booleans,
\* NumericIncrement for two numbers with new strictly greater than old,
\* NumericDecrement for two numbers with new strictly less, and Literal for
\* everything else.
C10_ClassifiesByValue ==
    last.op = "detect_pattern_type" =>
        last.pattern_type =
            (LET o == last.state_change.old_value
                 n == last.state_change.new_value
             IN  IF o.t = "Bool" /\ n.t = "Bool" /\ o.b # n.b THEN "BooleanToggle"
                 ELSE IF o.t = "Number" /\ n.t = "Number" /\ ValueLess(o, n)
                 THEN "NumericIncrement"
                 ELSE IF o.t = "Number" /\ n.t = "Number" /\ ValueLess(n, o)
                 THEN "NumericDecrement"
                 ELSE "Literal")

-----------------------------------------------------------------------------
(* Claims about the order of a patch stream (SpecReconcile). *)

\* Whether the path a patch addresses (for Create, the parent of its path) is
\* the path of a node of the tree held by slot.
PathResolves(slot, patch) ==
    IF patch.type = "Create"
    THEN patch.path # <<>> /\ FindNode(slot, parent(patch.path)) # None
    ELSE FindNode(slot, patch.path) # None

\* Every patch of ps addresses a node present when its turn comes, the
\* patches before it having been applied.
RECURSIVE Materialised(_, _)
Materialised(slot, ps) ==
    \/ ps = <<>>
    \/ /\ PathResolves(slot, ps[1])
       /\ Resolves(slot, ps[1]) => Materialised(ApplyPatch(slot, ps[1]), Tail(ps))

\* C14: for two valid trees, each patch of reconcile(old, new), applied in
\* emission order, addresses a path (for Create, a parent path) that resolves
\* in the tree as the earlier patches have left it.
C14_EveryPatchPathIsMaterialised ==
    (ReconcileDone /\ patches.ok) => Materialised(Some(old), patches.patches)

\* The keys of the keyed children, in sibling order.
RECURSIVE KeyOrder(_)
KeyOrder(children) ==
    IF children = <<>> THEN <<>>
    ELSE (IF children[1] # None /\ key(children[1][1]) # None
          THEN <<key(children[1][1])[1]>> ELSE <<>>) \o KeyOrder(Tail(children))

\* Two same-tag elements at one path that differ, the new one with a keyed child.
KeyedComparison ==
    /\ ReconcileDone /\ patches.ok
    /\ old.type = "Element" /\ new.type = "Element"
    /\ old.tag = new.tag /\ old.path = new.path /\ old # new
    /\ KeysOf(new.children) # {}

\* C15: when two same-tag elements are compared and the new one has a keyed
\* child, exactly one ReorderChildren is emitted for the parent, with the
\* parent's path and the new children's keys in sibling order, as the last
\* patch; and every Remove of a vanished keyed sibling follows every Create
\* and every patch of a recursion into a child.
C15_OneReorderLastRemovesAfterCreates ==
    KeyedComparison =>
        LET ps == patches.patches
            reorders == {i \in 1..Len(ps) : ps[i].type = "ReorderChildren"}
            gone == {Keyed(old.children, k).path :
                        k \in KeysOf(old.children) \ KeysOf(new.children)}
            removes == {i \in 1..Len(ps) : ps[i].type = "Remove" /\ ps[i].path \in gone}
            others == {i \in 1..Len(ps) : ps[i].type \notin {"Remove", "ReorderChildren"}}
        IN  /\ Cardinality(reorders) = 1
            /\ ps[Len(ps)] = ReorderChildren(new.path, KeyOrder(new.children))
            /\ \A r \in removes : \A o \in others : o < r

-----------------------------------------------------------------------------
(* One call of a function that keeps no state: VNode::validate and         *)
(* deserialize_vnode_safe under a ValidationConfig of the caller.          *)

ValidateTrees ==
    { VText(<<"A">>, RootPath), VText(<<"A", "B", "C">>, RootPath),
      EmptyDiv, TwoProps,
      VElement("div", {<<"id", <<"x", "y">>>>}, <<None, Some(VNull(child(RootPath, 1)))>>,
               None, RootPath),
      VElement("div", {}, <<Some(VText(<<"A", "B">>, child(RootPath, 0))),
                            Some(VText(<<"C", "D">>, child(RootPath, 1)))>>, None, RootPath),
      VElement("div", {}, <<Some(VElement("p", {},
                                     <<Some(VText(<<"A">>, child(child(RootPath, 0), 0)))>>,
                                     None, child(RootPath, 0)))>>, None, RootPath),
      VElement("div", {}, <<Some(VElement("p", {}, <<>>, None, child(RootPath, 0))),
                            Some(VText(<<"A">>, child(RootPath, 1))),
                            Some(VText(<<"B">>, child(RootPath, 2)))>>, None, RootPath) }

\* The default limits, each either kept or lowered to a value the trees reach.
ValidationConfigs ==
    [max_tree_depth : {1, max_tree_depth}, max_node_count : {2, max_node_count},
     max_children_per_node : {1, max_children_per_node},
     max_prop_key_length : {1, max_prop_key_length},
     max_prop_value_length : {1, max_prop_value_length},
     max_text_length : {2, max_text_length}, max_json_size : {8, max_json_size}]

JsonTexts ==
    {[len |-> n, node |-> d] : n \in {8, 9}, d \in {None} \cup {Some(t) : t \in ValidateTrees}}

Validate ==
    /\ last = NoCall
    /\ \E node \in ValidateTrees, cfg \in ValidationConfigs :
          last' = [op |-> "validate", node |-> node, config |-> cfg,
                   result |-> validate_with_config(node, cfg)]
    /\ UNCHANGED <<patterns, config, METRICS, now, inserted, observed, loaded, RecVars, PVVars, StaticVars>>

Deserialize ==
    /\ last = NoCall
    /\ \E json \in JsonTexts, cfg \in ValidationConfigs :
          last' = [op |-> "deserialize_vnode_safe", json |-> json, config |-> cfg,
                   result |-> deserialize_vnode_safe(json, cfg)]
    /\ UNCHANGED <<patterns, config, METRICS, now, inserted, observed, loaded, RecVars, PVVars, StaticVars>>

-----------------------------------------------------------------------------
(* Claims about validation (SpecCalls). *)

\* The nodes of a tree, each with its depth (the root at depth 0).
RECURSIVE NodesAt(_, _)
NodesAt(node, depth) ==
    {<<node, depth>>} \cup
        (IF node.type = "Element"
         THEN UNION {NodesAt(node.children[i][1], depth + 1) :
                        i \in {j \in 1..Len(node.children) : node.children[j] # None}}
         ELSE {})

\* The limits of a configuration other than the one on text, as the set of
\* error kinds whose limit the tree exceeds.
StructureViolations(node, cfg) ==
    LET all == NodesAt(node, 0) IN
    {k \in {"TreeTooDeep", "TreeTooLarge", "TooManyChildren", "PropertyTooLong"} :
        \/ k = "TreeTooDeep" /\ \E nd \in all : nd[2] > cfg.max_tree_depth
        \/ k = "TreeTooLarge" /\ Cardinality(all) > cfg.max_node_count
        \/ k = "TooManyChildren"
              /\ \E nd \in all : nd[1].type = "Element"
                                 /\ Len(nd[1].children) > cfg.max_children_per_node
        \/ k = "PropertyTooLong"
              /\ \E nd \in all : nd[1].type = "Element"
                                 /\ \E kv \in nd[1].props :
                                        \/ Len(kv[1]) > cfg.max_prop_key_length
                                        \/ Len(kv[2]) > cfg.max_prop_value_length}

\* The length of the text of the whole tree.
RECURSIVE TotalText(_)
TotalText(nodes) ==
    IF nodes = {} THEN 0
    ELSE LET nd == CHOOSE x \in nodes : TRUE
         IN  (IF nd[1].type = "Text" THEN Len(nd[1].content) ELSE 0) + TotalText(nodes \ {nd})

ViolationsTotalText(node, cfg) ==
    StructureViolations(node, cfg)
        \cup (IF TotalText(NodesAt(node, 0)) > cfg.max_text_length THEN {"TextTooLong"} ELSE {})

ViolationsPerText(node, cfg) ==
    StructureViolations(node, cfg)
        \cup (IF \E nd \in NodesAt(node, 0) :
                    nd[1].type = "Text" /\ Len(nd[1].content) > cfg.max_text_length
              THEN {"TextTooLong"} ELSE {})

\* C16 as stated: validate succeeds exactly when the tree is within every
\* limit, the text limit bounding the total text length of the tree; a
\* failure names a limit that is exceeded; and deserialize_vnode_safe answers
\* JsonTooLarge for a text longer than max_json_size, parsable or not.
C16_ValidIffWithinLimitsTotalText ==
    /\ last.op = "validate" =>
          IF ViolationsTotalText(last.node, last.config) = {} THEN last.result = "Ok"
          ELSE last.result \in ViolationsTotalText(last.node, last.config)
    /\ (last.op = "deserialize_vnode_safe" /\ last.json.len > last.config.max_json_size)
          => last.result = [ok |-> FALSE, error |-> "JsonTooLarge"]

\* C16 amended: the same, the text limit bounding the length of each text node.
C16_ValidIffWithinLimitsPerText ==
    /\ last.op = "validate" =>
          IF ViolationsPerText(last.node, last.config) = {} THEN last.result = "Ok"
          ELSE last.result \in ViolationsPerText(last.node, last.config)
    /\ (last.op = "deserialize_vnode_safe" /\ last.json.len > last.config.max_json_size)
          => last.result = [ok |-> FALSE, error |-> "JsonTooLarge"]

\* A tree whose text nodes are each within the limit and together beyond it.
C16_Witness ==
    /\ last.op = "validate" /\ last.result = "Ok"
    /\ TotalText(NodesAt(last.node, 0)) > last.config.max_text_length

-----------------------------------------------------------------------------
(* reorder_detection.rs.  A JSON object is held as a function from its     *)
(* keys to its values.  The outcome of a step whose result the source      *)
(* leaves open (the order in which a Map is iterated, a sort under a       *)
(* comparator that is no total preorder) is every outcome it can have, so  *)
(* the operators below yield SETS of results.                              *)

JObject(fields) == [t |-> "Object", fields |-> fields]

\* The bytes the strings of the model are made of, in ascending order.
Ascii == <<"-", "0", "1", "2", "3", "4", "5", "6", "7", "8", "9", "A", "B", "C", "D",
           "a", "b", "c", "d", "e", "k", "n", "v", "x", "y">>

\* str::cmp: -1, 0 or 1 for Less, Equal, Greater (lexicographic by byte).
RECURSIVE StrCmp(_, _)
StrCmp(s1, s2) ==
    LET rank(c) == CHOOSE i \in 1..Len(Ascii) : Ascii[i] = c IN
    IF s1 = <<>> /\ s2 = <<>> THEN 0
    ELSE IF s1 = <<>> THEN 0 - 1
    ELSE IF s2 = <<>> THEN 1
    ELSE IF rank(s1[1]) < rank(s2[1]) THEN 0 - 1
    ELSE IF rank(s1[1]) > rank(s2[1]) THEN 1
    ELSE StrCmp(Tail(s1), Tail(s2))

\* The comparator is_sorted_version hands to sort_by, on two Option<&Value>.
SortCmp(a, b, descending) ==
    LET x == IF descending THEN b ELSE a
        y == IF descending THEN a ELSE b
    IN  IF a = None \/ b = None THEN 0
        ELSE IF x[1].t = "String" /\ y[1].t = "String" THEN StrCmp(x[1].s, y[1].s)
        ELSE IF x[1].t = "Number" /\ y[1].t = "Number"
        THEN IF F64Less(as_f64(x[1]), as_f64(y[1])) THEN 0 - 1
             ELSE IF F64Less(as_f64(y[1]), as_f64(x[1])) THEN 1 ELSE 0
        ELSE IF x[1].t = "Bool" /\ y[1].t = "Bool"
        THEN IF x[1].b = y[1].b THEN 0 ELSE IF y[1].b THEN 0 - 1 ELSE 1
        ELSE 0

\* is_sorted_version: sort_by is stable, so under a total preorder the sorted
\* vector is unique; under any other comparator its order is unspecified.
is_sorted_version(original, sorted, descending) ==
    LET idx == 1..Len(original)
        c(i, j) == SortCmp(original[i], original[j], descending)
        total == \A i, j, k \in idx :
                    /\ (c(i, j) <= 0 /\ c(j, k) <= 0) => c(i, k) <= 0
                    /\ (c(i, j) < 0 /\ c(j, k) <= 0) => c(i, k) < 0
                    /\ (c(i, j) <= 0 /\ c(j, k) < 0) => c(i, k) < 0
        stable(p) == \A m, n \in idx :
                        m < n => (c(p[m], p[n]) < 0 \/ (c(p[m], p[n]) = 0 /\ p[m] < p[n]))
        orders == {p \in Perms(idx) : ~total \/ stable(p)}
    IN  {\A m \in 1..(IF Len(sorted) < Len(original) THEN Len(sorted) ELSE Len(original)) :
            original[p[m]] = sorted[m] : p \in orders}

is_reversed(old_items, new_items) ==
    /\ Len(old_items) = Len(new_items)
    /\ \A i \in 1..Len(old_items) : old_items[i] = new_items[Len(old_items) + 1 - i]

\* detect_sort_by_property: the properties of the first new item are tried in
\* the order the Map yields them, ascending before descending.
detect_sort_by_property(old_items, new_items) ==
    IF old_items = <<>> \/ new_items = <<>> \/ new_items[1].t # "Object" THEN {None}
    ELSE LET get(item, prop) ==
                 IF item.t = "Object" /\ prop \in DOMAIN item.fields
                 THEN Some(item.fields[prop]) ELSE None
             old_values(prop) == [i \in 1..Len(old_items) |-> get(old_items[i], prop)]
             new_values(prop) == [i \in 1..Len(new_items) |-> get(new_items[i], prop)]
             \* the results of trying prop: found ascending, found descending, not found
             Try(prop) ==
                 UNION {IF asc THEN {Some(<<prop, "Ascending">>)}
                        ELSE {IF desc THEN Some(<<prop, "Descending">>) ELSE None :
                                 desc \in is_sorted_version(old_values(prop), new_values(prop), TRUE)} :
                        asc \in is_sorted_version(old_values(prop), new_values(prop), FALSE)}
             RECURSIVE Loop(_)
             Loop(props) ==
                 IF props = <<>> THEN {None}
                 ELSE UNION {IF r # None THEN {r} ELSE Loop(Tail(props)) : r \in Try(props[1])}
         IN  UNION {Loop(ord) : ord \in Perms(DOMAIN new_items[1].fields)}

\* extract_key_order: ok is FALSE when an item is no object or has none of the
\* key properties; an item whose key is neither string nor number is skipped.
RECURSIVE extract_key_order(_)
extract_key_order(items) ==
    IF items = <<>> THEN [ok |-> TRUE, keys |-> <<>>]
    ELSE LET item == items[1]
             names == <<"id", "key", "_id", "uuid">>
             found == {i \in 1..4 : item.t = "Object" /\ names[i] \in DOMAIN item.fields}
             key_value == item.fields[names[CHOOSE i \in found : \A j \in found : i <= j]]
             here == IF key_value.t = "String" THEN <<key_value.s>>
                     ELSE IF key_value.t = "Number" THEN <<to_string(key_value)>>
                     ELSE <<>>
             rest == extract_key_order(Tail(items))
         IN  IF item.t # "Object" \/ found = {} THEN [ok |-> FALSE, keys |-> <<>>]
             ELSE IF ~rest.ok THEN rest
             ELSE [ok |-> TRUE, keys |-> here \o rest.keys]

ReorderTemplate(array_binding, ordering) ==
    Some([array_binding |-> array_binding, ordering |-> ordering])

\* infer_ordering_rule trying the sort by a property before the reversal.
infer_ordering_rule_SortFirst(old_array, new_array, array_binding) ==
    IF old_array.t # "Array" \/ new_array.t # "Array" THEN {None}
    ELSE IF Len(old_array.items) # Len(new_array.items) THEN {None}
    ELSE {IF s # None
          THEN ReorderTemplate(array_binding,
                   [type |-> "SortByProperty", property |-> s[1][1], direction |-> s[1][2]])
          ELSE IF is_reversed(old_array.items, new_array.items)
          THEN ReorderTemplate(array_binding, [type |-> "Reverse"])
          ELSE None :
          s \in detect_sort_by_property(old_array.items, new_array.items)}

infer_ordering_rule(old_array, new_array, array_binding) ==
    IF old_array.t # "Array" \/ new_array.t # "Array" THEN {None}
    ELSE IF Len(old_array.items) # Len(new_array.items) THEN {None}
    ELSE IF is_reversed(old_array.items, new_array.items)
    THEN {ReorderTemplate(array_binding, [type |-> "Reverse"])}
    ELSE {IF s # None
          THEN ReorderTemplate(array_binding,
                   [type |-> "SortByProperty", property |-> s[1][1], direction |-> s[1][2]])
          ELSE LET k == extract_key_order(new_array.items)
               IN  IF k.ok /\ k.keys # <<>>
                   THEN ReorderTemplate(array_binding, [type |-> "Custom", key_order |-> k.keys])
                   ELSE None :
          s \in detect_sort_by_property(old_array.items, new_array.items)}

-----------------------------------------------------------------------------
(* One infer_ordering_rule call on two JSON values. *)

MaxItems == 3

ReorderItems ==
    { JObject([id |-> Num(1), name |-> JString(<<"B">>)]),
      JObject([id |-> Num(2), name |-> JString(<<"A">>)]),
      JString(<<"x">>) }

ReorderValues ==
    {JNull} \cup UNION {{JArray(items) : items \in [1..n -> ReorderItems]} : n \in 0..MaxItems}

InferOrdering ==
    /\ last = NoCall
    /\ \E old_array \in ReorderValues, new_array \in ReorderValues :
       \E r \in infer_ordering_rule(old_array, new_array, <<"i">>) :
          last' = [op |-> "infer_ordering_rule", old_array |-> old_array,
                   new_array |-> new_array, result |-> r]
    /\ UNCHANGED <<patterns, config, METRICS, now, inserted, observed, loaded, RecVars, PVVars, StaticVars>>

-----------------------------------------------------------------------------
(* structural_template_extraction.rs: a node here is a Text or an Element
   whose children are nodes; paths are index paths. *)

StructuralTemplate(condition_binding, branches, default_branch) ==
    [condition_binding |-> condition_binding, branches |-> branches,
     default_branch |-> default_branch]

ReplaceConditional(path, structural_template) ==
    [type |-> "ReplaceConditional", path |-> path,
     structural_template |-> structural_template]

\* HashMap::insert on a map kept as a set of <<key, value>> pairs.
HashMapInsert(map, k, v) == {e \in map : e[1] # k} \cup {<<k, v>>}

\* is_structural_change taking a difference of 50% for a structural one.
is_structural_change_AtLeastHalf(old_node, new_node) ==
    IF old_node.type = "Text" /\ new_node.type = "Element" THEN TRUE
    ELSE IF old_node.type = "Element" /\ new_node.type = "Text" THEN TRUE
    ELSE IF old_node.type = "Text"
    THEN /\ ~contains(old_node.content, new_node.content)
         /\ ~contains(new_node.content, old_node.content)
    ELSE LET old_children_count == Len(old_node.children)
             new_children_count == Len(new_node.children)
             diff == IF old_children_count > new_children_count
                     THEN old_children_count - new_children_count
                     ELSE new_children_count - old_children_count
             max == IF old_children_count > new_children_count
                    THEN old_children_count ELSE new_children_count
         IN  IF old_node.tag # new_node.tag THEN TRUE
             ELSE IF /\ old_children_count = new_children_count
                     /\ old_children_count > 0
                     /\ (old_node.children[1][1].type = "Text")
                            # (new_node.children[1][1].type = "Text")
             THEN TRUE
             ELSE IF old_children_count = 0 /\ new_children_count > 0 THEN TRUE
             ELSE IF new_children_count = 0 /\ old_children_count > 0 THEN TRUE
             ELSE max > 0 /\ ((diff * 100) \div max) >= 50

is_structural_change(old_node, new_node) ==
    IF old_node.type = "Text" /\ new_node.type = "Element" THEN TRUE
    ELSE IF old_node.type = "Element" /\ new_node.type = "Text" THEN TRUE
    ELSE IF old_node.type = "Text"
    THEN /\ ~contains(old_node.content, new_node.content)
         /\ ~contains(new_node.content, old_node.content)
    ELSE LET old_children_count == Len(old_node.children)
             new_children_count == Len(new_node.children)
             diff == IF old_children_count > new_children_count
                     THEN old_children_count - new_children_count
                     ELSE new_children_count - old_children_count
             max == IF old_children_count > new_children_count
                    THEN old_children_count ELSE new_children_count
         IN  IF old_node.tag # new_node.tag THEN TRUE
             ELSE IF /\ old_children_count = new_children_count
                     /\ old_children_count > 0
                     /\ (old_node.children[1][1].type = "Text")
                            # (new_node.children[1][1].type = "Text")
             THEN TRUE
             ELSE IF old_children_count = 0 /\ new_children_count > 0 THEN TRUE
             ELSE IF new_children_count = 0 /\ old_children_count > 0 THEN TRUE
             ELSE max > 0 /\ ((diff * 100) \div max) > 50

\* Arrays and objects (Debug formatting) never reach this from
\* extract_structural_template, which returns None for them first.
serialize_condition_value(value) ==
    CASE value.t = "Bool" -> IF value.b THEN <<"t", "r", "u", "e">>
                             ELSE <<"f", "a", "l", "s", "e">>
      [] value.t = "String" -> value.s
      [] value.t = "Number" -> to_string(value)
      [] value.t = "Null" -> <<"n", "u", "l", "l">>

\* The old branch is inserted last.
extract_structural_template_OldLast(state_change, old_path, old_node, new_node) ==
    LET is_boolean == state_change.old_value.t = "Bool" /\ state_change.new_value.t = "Bool"
        is_enum == state_change.old_value.t = "String" /\ state_change.new_value.t = "String"
        old_key == serialize_condition_value(state_change.old_value)
        new_key == serialize_condition_value(state_change.new_value)
        branches == HashMapInsert(HashMapInsert({}, new_key, new_node), old_key, old_node)
    IN  IF ~is_boolean /\ ~is_enum THEN None
        ELSE IF ~is_structural_change(old_node, new_node) THEN None
        ELSE Some(ReplaceConditional(old_path,
                 StructuralTemplate(state_change.state_key, branches, None)))

extract_structural_template(state_change, old_path, old_node, new_node) ==
    LET is_boolean == state_change.old_value.t = "Bool" /\ state_change.new_value.t = "Bool"
        is_enum == state_change.old_value.t = "String" /\ state_change.new_value.t = "String"
        old_key == serialize_condition_value(state_change.old_value)
        new_key == serialize_condition_value(state_change.new_value)
        branches == HashMapInsert(HashMapInsert({}, old_key, old_node), new_key, new_node)
    IN  IF ~is_boolean /\ ~is_enum THEN None
        ELSE IF ~is_structural_change(old_node, new_node) THEN None
        ELSE Some(ReplaceConditional(old_path,
                 StructuralTemplate(state_change.state_key, branches, None)))

(* One extract_structural_template call. *)

StructuralValues ==
    {JBool(TRUE), JBool(FALSE), JString(<<"a">>), JString(<<"b">>), Num(1), JNull}

StructuralNodes ==
    { VText(<<"A">>, <<>>), VText(<<"A", "B">>, <<>>), VText(<<"B">>, <<>>),
      VElement("div", {}, <<>>, None, <<>>),
      VElement("span", {}, <<>>, None, <<>>),
      VElement("div", {}, <<Some(VText(<<"A">>, <<>>))>>, None, <<>>),
      VElement("div", {}, <<Some(VElement("span", {}, <<>>, None, <<>>))>>, None, <<>>),
      VElement("div", {}, <<Some(VText(<<"A">>, <<>>)), Some(VText(<<"B">>, <<>>)),
                            Some(VText(<<"A">>, <<>>))>>, None, <<>>) }

ExtractStructural ==
    /\ last = NoCall
    /\ \E o \in StructuralValues, n \in StructuralValues,
          old_node \in StructuralNodes, new_node \in StructuralNodes :
          last' = [op |-> "extract_structural_template",
                   state_change |-> StateChange(<<"c">>, <<"k">>, o, n),
                   old_node |-> old_node, new_node |-> new_node,
                   result |-> extract_structural_template(
                                  StateChange(<<"c">>, <<"k">>, o, n), <<0>>,
                                  old_node, new_node)]
    /\ UNCHANGED <<patterns, config, METRICS, now, inserted, observed, loaded, RecVars, PVVars, StaticVars>>

CallsNext ==
    \/ Validate
    \/ Deserialize
    \/ InferOrdering
    \/ ExtractStructural

SpecCalls == ClassifyInit /\ [][CallsNext]_vars

-----------------------------------------------------------------------------
(* Claims about reorder detection (SpecCalls). *)

\* C17: for two JSON arrays of equal length with new[i] = old[len-1-i] for
\* every i, infer_ordering_rule returns a template whose ordering is Reverse,
\* also when sorting by a property would give the same order.
C17_ReversedArraysGiveReverse ==
    (/\ last.op = "infer_ordering_rule"
     /\ last.old_array.t = "Array" /\ last.new_array.t = "Array"
     /\ Len(last.old_array.items) = Len(last.new_array.items)
     /\ \A i \in 1..Len(last.old_array.items) :
           last.new_array.items[i] = last.old_array.items[Len(last.old_array.items) + 1 - i])
        => /\ last.result # None
           /\ last.result[1].ordering = [type |-> "Reverse"]

\* Two objects swapped: the reversal is also the sort by name ascending and
\* by id descending.
C17_Witness ==
    /\ last.op = "infer_ordering_rule"
    /\ last.old_array = JArray(<<JObject([id |-> Num(1), name |-> JString(<<"B">>)]),
                                 JObject([id |-> Num(2), name |-> JString(<<"A">>)])>>)
    /\ last.new_array = JArray(<<JObject([id |-> Num(2), name |-> JString(<<"A">>)]),
                                 JObject([id |-> Num(1), name |-> JString(<<"B">>)])>>)
    /\ last.result = ReorderTemplate(<<"i">>, [type |-> "Reverse"])

-----------------------------------------------------------------------------
(* Claims about structural templates (SpecCalls). *)

BothBoolOrBothString(sc) ==
    \/ sc.old_value.t = "Bool" /\ sc.new_value.t = "Bool"
    \/ sc.old_value.t = "String" /\ sc.new_value.t = "String"

\* C18 as stated: for a both-boolean or both-string state change with
\* structurally different nodes the result is ReplaceConditional with
\* condition_binding = state_key and branches holding stringified old_value ->
\* old_node and stringified new_value -> new_node; for any other pair of
\* value types the result is None.
C18_BranchesHoldOldAndNew ==
    last.op = "extract_structural_template"
        => LET sc == last.state_change
           IN  /\ (BothBoolOrBothString(sc) /\ is_structural_change(last.old_node, last.new_node))
                    => /\ last.result # None
                       /\ last.result[1].type = "ReplaceConditional"
                       /\ last.result[1].structural_template.condition_binding = sc.state_key
                       /\ <<serialize_condition_value(sc.old_value), last.old_node>>
                             \in last.result[1].structural_template.branches
                       /\ <<serialize_condition_value(sc.new_value), last.new_node>>
                             \in last.result[1].structural_template.branches
               /\ ~BothBoolOrBothString(sc) => last.result = None

\* C18 amended: the branches are exactly stringified new_value -> new_node
\* and, when the two stringified values differ, stringified old_value ->
\* old_node; when they are equal the single branch holds new_node.
C18_BranchesHoldNewAndDistinctOld ==
    last.op = "extract_structural_template"
        => LET sc == last.state_change
               old_key == serialize_condition_value(sc.old_value)
               new_key == serialize_condition_value(sc.new_value)
           IN  /\ (BothBoolOrBothString(sc) /\ is_structural_change(last.old_node, last.new_node))
                    => /\ last.result # None
                       /\ last.result[1].type = "ReplaceConditional"
                       /\ last.result[1].structural_template.condition_binding = sc.state_key
                       /\ last.result[1].structural_template.branches =
                             {<<new_key, last.new_node>>}
                                \cup (IF old_key # new_key THEN {<<old_key, last.old_node>>} ELSE {})
               /\ ~BothBoolOrBothString(sc) => last.result = None

\* isLoggedIn-like change false -> true from a text to an element.
C18_Witness ==
    /\ last.op = "extract_structural_template"
    /\ last.state_change.old_value = JBool(FALSE)
    /\ last.state_change.new_value = JBool(TRUE)
    /\ last.old_node.type = "Text" /\ last.new_node.type = "Element"
    /\ last.result # None
    /\ Cardinality(last.result[1].structural_template.branches) = 2

-----------------------------------------------------------------------------
(* logging.rs *)

\* LogLevel discriminants; the derived Ord is their numeric order.
Trace == 0
Debug == 1
Info == 2
Warn == 3
Error == 4

max_entries == 10000

LogEntry(lvl, module, message, timestamp) ==
    [level |-> lvl, message |-> message, module |-> module, timestamp |-> timestamp]

LoggerNew == [enabled |-> FALSE, min_level |-> Info, entries |-> <<>>]

enable(logger) == [logger EXCEPT !.enabled = TRUE]

disable(logger) == [logger EXCEPT !.enabled = FALSE]

is_enabled(logger) == logger.enabled

set_level(logger, lvl) == [logger EXCEPT !.min_level = lvl]

level(logger) ==
    IF logger.min_level \in {Trace, Debug, Info, Warn, Error} THEN logger.min_level ELSE Info

\* The level is not compared with the minimum level.
log_NoLevelCheck(logger, lvl, module, message, timestamp) ==
    IF ~is_enabled(logger) THEN logger
    ELSE LET entry == LogEntry(lvl, module, message, timestamp)
             kept == IF Len(logger.entries) >= max_entries
                     THEN Tail(logger.entries) ELSE logger.entries
         IN  [logger EXCEPT !.entries = Append(kept, entry)]

log(logger, lvl, module, message, timestamp) ==
    IF ~is_enabled(logger) THEN logger
    ELSE IF lvl < level(logger) THEN logger
    ELSE LET entry == LogEntry(lvl, module, message, timestamp)
             kept == IF Len(logger.entries) >= max_entries
                     THEN Tail(logger.entries) ELSE logger.entries
         IN  [logger EXCEPT !.entries = Append(kept, entry)]

clear(logger) == [logger EXCEPT !.entries = <<>>]

\* minimact_logging_set_level: a u32 outside 0..4 selects Info.
minimact_logging_set_level(logger, n) ==
    set_level(logger, IF n \in {0, 1, 2, 3, 4} THEN n ELSE Info)

(* The global logger under enable, disable, set_level, log and clear calls.
   The buffer starts empty or, after max_entries earlier entries, full. *)

MaxLogs == 2

FullBuffer == [i \in 1..max_entries |-> LogEntry(Info, "test", <<"o">>, 0)]

LoggerInit ==
    /\ LOGGER \in {LoggerNew, [LoggerNew EXCEPT !.entries = FullBuffer]}
    /\ now = 1
    /\ last = NoCall
    /\ METRICS = MetricsNew
    /\ patterns = Idle /\ config = Idle
    /\ inserted = Idle /\ observed = Idle /\ loaded = Idle
    /\ RecIdle /\ PVIdle /\ FfiIdle

LoggerFrame ==
    UNCHANGED <<patterns, config, METRICS, inserted, observed, loaded, RecVars, PVVars, FfiVars>>

Enable ==
    /\ LOGGER' = enable(LOGGER)
    /\ last' = [op |-> "enable"]
    /\ UNCHANGED now /\ LoggerFrame

Disable ==
    /\ LOGGER' = disable(LOGGER)
    /\ last' = [op |-> "disable"]
    /\ UNCHANGED now /\ LoggerFrame

SetLevel ==
    /\ \E n \in 0..5 :
          /\ LOGGER' = minimact_logging_set_level(LOGGER, n)
          /\ last' = [op |-> "set_level"]
    /\ UNCHANGED now /\ LoggerFrame

\* Instant::now() is read only when the entry is built.
Log ==
    /\ now <= MaxLogs
    /\ \E lvl \in {Trace, Debug, Info, Warn, Error} :
          /\ LOGGER' = log(LOGGER, lvl, "test", <<"m">>, now)
          /\ last' = [op |-> "log", level |-> lvl]
          /\ now' = IF LOGGER' = LOGGER THEN now ELSE now + 1
    /\ LoggerFrame

Clear ==
    /\ LOGGER' = clear(LOGGER)
    /\ last' = [op |-> "clear"]
    /\ UNCHANGED now /\ LoggerFrame

LoggerNext ==
    \/ Enable
    \/ Disable
    \/ SetLevel
    \/ Log
    \/ Clear

SpecLogger == LoggerInit /\ [][LoggerNext]_vars

-----------------------------------------------------------------------------
(* Claims about the logger (SpecLogger). *)

\* C20: a log call appends its entry to the buffer (dropping the oldest
\* entry of a full buffer) if and only if logging is enabled and the entry's
\* level is >= the minimum level under Trace < Debug < Info < Warn < Error;
\* otherwise the buffer is unchanged.
C20_LogAppendsIffEnabledAndAtLeastMinLevel ==
    [][ last'.op = "log" =>
          LET rank == [l \in {Trace, Debug, Info, Warn, Error} |->
                         CASE l = Trace -> 1 [] l = Debug -> 2 [] l = Info -> 3
                           [] l = Warn -> 4 [] l = Error -> 5]
              passes == LOGGER.enabled /\ rank[last'.level] >= rank[LOGGER.min_level]
              n == Len(LOGGER'.entries)
              appended ==
                  /\ n >= 1
                  /\ LOGGER'.entries[n].level = last'.level
                  /\ LOGGER'.entries[n].timestamp = now
                  /\ \/ SubSeq(LOGGER'.entries, 1, n - 1) = LOGGER.entries
                     \/ /\ Len(LOGGER.entries) >= max_entries
                        /\ SubSeq(LOGGER'.entries, 1, n - 1) = Tail(LOGGER.entries)
          IN  /\ passes <=> appended
              /\ ~passes => LOGGER'.entries = LOGGER.entries ]_vars

\* A Warn entry was logged at minimum level Warn and is the newest entry.
C20_Witness ==
    /\ last = [op |-> "log", level |-> Warn]
    /\ LOGGER.enabled /\ LOGGER.min_level = Warn
    /\ Len(LOGGER.entries) >= 1
    /\ LOGGER.entries[Len(LOGGER.entries)].level = Warn
    /\ LOGGER.entries[Len(LOGGER.entries)].timestamp = now - 1

-----------------------------------------------------------------------------
(* ffi.rs: the registry of predictors behind the C interface.

   PREDICTORS is a DashMap.  get and get_mut return a guard that holds the
   entry's shard lock, shared or exclusive, until it is dropped at the end
   of the handler; remove takes the same lock exclusively.  The lock is kept
   here per entry: entries that share a shard only wait more.  A thread waits
   by not taking its step. *)

FfiSuccess == [code |-> "Success", message |-> None]

error_str(msg) == [code |-> "Unknown", message |-> Some(msg)]

\* A returned *mut c_char: the null pointer or a C string holding JSON.
NullPtr == [ptr |-> "null"]

JsonPtr(json) == [ptr |-> "string", json |-> json]

PredictorNew == [patterns |-> NewStore, config |-> ConfigDefault]

\* minimact_predictor_new_with_config: min_confidence in percent.
PredictorWithConfig(min_confidence, max_patterns_per_key) ==
    [patterns |-> NewStore,
     config |-> [ConfigDefault EXCEPT !.min_confidence = min_confidence,
                                      !.max_patterns_per_key = max_patterns_per_key]]

\* AtomicUsize::fetch_add that leaves the counter as it was.
fetch_add_NoIncrement(counter, n) == [value |-> counter, next |-> counter]

\* AtomicUsize::fetch_add: the value before, and the counter after.  The
\* counter wraps at 2^64, which no run of fewer than 2^64 - 1 creations meets.
fetch_add(counter, n) == [value |-> counter, next |-> counter + n]

DashMapInsert(map, k, v) == [h \in DOMAIN map \cup {k} |-> IF h = k THEN v ELSE map[h]]

\* DashMap::remove that leaves the entry in place.
DashMapRemove_Keep(map, k) == map

DashMapRemove(map, k) == [h \in DOMAIN map \ {k} |-> map[h]]

\* get_mut that does not wait for the guards of other threads.
exclusive_free_NoWait(gs, handle) == TRUE

\* Whether get_mut or remove can take the entry's lock: no guard is held on it.
exclusive_free(gs, handle) == \A g \in gs : g.handle # handle

\* Whether get can take the entry's lock: no RefMut is held on it.
shared_free(gs, handle) == \A g \in gs : g.handle = handle => g.mode = "shared"

IdleThread == [pc |-> "idle"]

Threads == {1, 2}

MaxFfiCalls == 3

Begun == Len(history) + Cardinality({t \in Threads : threads[t] # IdleThread})

\* A call returns: it joins the history and its thread is free again.
Returns(t, call, result, serial) ==
    /\ history' = Append(history, [call EXCEPT !.pc = "returned"] @@
                                  [thread |-> t, result |-> result, serial |-> serial])
    /\ threads' = [threads EXCEPT ![t] = IdleThread]

(* minimact_predictor_new, _new_with_config and _load *)

Creates(t, op, predictor) ==
    LET f == fetch_add(NEXT_PREDICTOR_ID, 1)
    IN  /\ NEXT_PREDICTOR_ID' = f.next
        /\ threads' = [threads EXCEPT ![t] =
                          [pc |-> "insert", op |-> op, began |-> Len(history),
                           parsed |-> TRUE, handle |-> f.value, predictor |-> predictor]]
        /\ UNCHANGED <<PREDICTORS, guards, history, shadow, METRICS>>

BeginNew(t) ==
    /\ threads[t] = IdleThread /\ Begun < MaxFfiCalls
    /\ Creates(t, "new", PredictorNew)
    /\ UNCHANGED now

BeginNewWithConfig(t, min_confidence, max_patterns_per_key) ==
    /\ threads[t] = IdleThread /\ Begun < MaxFfiCalls
    /\ Creates(t, "new_with_config", PredictorWithConfig(min_confidence, max_patterns_per_key))
    /\ UNCHANGED now

\* json is None for a text that is no Predictor, else Some(the document).
BeginLoad(t, json) ==
    /\ threads[t] = IdleThread /\ Begun < MaxFfiCalls
    /\ IF json = None
       THEN /\ Returns(t, [pc |-> "start", op |-> "load", began |-> Len(history),
                           parsed |-> FALSE, handle |-> 0],
                       0, 0)
            /\ UNCHANGED <<PREDICTORS, NEXT_PREDICTOR_ID, guards, shadow, METRICS, now>>
       ELSE /\ Creates(t, "load", load_from_json(json[1], PatternKeys, now))
            /\ now' = now + 1

Insert(t) ==
    /\ threads[t].pc = "insert"
    /\ PREDICTORS' = DashMapInsert(PREDICTORS, threads[t].handle, threads[t].predictor)
    /\ shadow' = DashMapInsert(shadow, threads[t].handle, threads[t].predictor)
    /\ threads' = [threads EXCEPT ![t].pc = "record_created"]
    /\ UNCHANGED <<NEXT_PREDICTOR_ID, guards, history, METRICS, now>>

RecordCreated(t) ==
    /\ threads[t].pc = "record_created"
    /\ METRICS' = record_predictor_created(METRICS)
    /\ Returns(t, threads[t], threads[t].handle, threads[t].handle)
    /\ UNCHANGED <<PREDICTORS, NEXT_PREDICTOR_ID, guards, shadow, now>>

(* minimact_predictor_destroy *)

BeginDestroy(t, handle) ==
    /\ threads[t] = IdleThread /\ Begun < MaxFfiCalls
    /\ IF handle \in DOMAIN PREDICTORS
       THEN /\ exclusive_free(guards, handle)
            /\ PREDICTORS' = DashMapRemove(PREDICTORS, handle)
            /\ shadow' = DashMapRemove(shadow, handle)
            /\ threads' = [threads EXCEPT ![t] =
                              [pc |-> "record_destroyed", op |-> "destroy",
                               began |-> Len(history), handle |-> handle]]
            /\ UNCHANGED history
       ELSE /\ Returns(t, [pc |-> "start", op |-> "destroy", began |-> Len(history),
                           handle |-> handle],
                       error_str("Invalid predictor handle"),
                       error_str("Invalid predictor handle"))
            /\ UNCHANGED <<PREDICTORS, shadow>>
    /\ UNCHANGED <<NEXT_PREDICTOR_ID, guards, METRICS, now>>

RecordDestroyed(t) ==
    /\ threads[t].pc = "record_destroyed"
    /\ METRICS' = record_predictor_destroyed(METRICS)
    /\ Returns(t, threads[t], FfiSuccess, FfiSuccess)
    /\ UNCHANGED <<PREDICTORS, NEXT_PREDICTOR_ID, guards, shadow, now>>

(* minimact_predictor_learn, _predict, _predict_hint, _stats and _save.
   A state-change JSON is None when serde_json cannot read it, else
   Some(what it reads); a tree JSON is a text as deserialize_vnode_safe
   takes it.  The handler works on the entry it locked and leaves the
   entry as its work left it when the guard is dropped. *)

\* The handler has read its arguments and goes on to look the handle up.
Parsed(t, call) ==
    /\ threads' = [threads EXCEPT ![t] = [call EXCEPT !.pc = "lookup"]]
    /\ UNCHANGED <<guards, history>>

\* PREDICTORS.get_mut(&handle) in learn, predict and predict_hint and
\* PREDICTORS.get(&handle) in stats and save: the handler's return for a
\* handle that is not there, else the guard once the lock is free.
Lookup(t) ==
    LET call == threads[t]
        absent == CASE call.op = "learn" -> error_str("Invalid predictor handle")
                    [] call.op = "predict" ->
                          JsonPtr([ok |-> FALSE, error |-> "Invalid predictor handle"])
                    [] call.op \in {"predict_hint", "stats", "save"} -> NullPtr
        mode == IF call.op \in {"stats", "save"} THEN "shared" ELSE "exclusive"
    IN  /\ call.pc = "lookup"
        /\ IF call.handle \notin DOMAIN PREDICTORS
           THEN Returns(t, call, absent, absent) /\ UNCHANGED guards
           ELSE /\ IF mode = "shared" THEN shared_free(guards, call.handle)
                   ELSE exclusive_free(guards, call.handle)
                /\ guards' = guards \cup {[thread |-> t, handle |-> call.handle, mode |-> mode]}
                /\ threads' = [threads EXCEPT ![t] =
                                  [call EXCEPT !.pc = "locked"]
                                      @@ [entry |-> PREDICTORS[call.handle]]]
                /\ UNCHANGED history
        /\ UNCHANGED <<PREDICTORS, NEXT_PREDICTOR_ID, shadow, METRICS, now>>

Unlocks(t) == guards' = {g \in guards : g.thread # t}

BeginLearn(t, handle, state_change_json, old_tree_json, new_tree_json) ==
    LET call == [pc |-> "start", op |-> "learn", began |-> Len(history), handle |-> handle,
                 state_change |-> state_change_json]
        old_tree == deserialize_vnode_safe(old_tree_json, ValidationConfigDefault)
        new_tree == deserialize_vnode_safe(new_tree_json, ValidationConfigDefault)
        Fails(msg) == /\ Returns(t, call, error_str(msg), error_str(msg))
                      /\ UNCHANGED guards
    IN  /\ threads[t] = IdleThread /\ Begun < MaxFfiCalls
        /\ IF state_change_json = None THEN Fails("Failed to parse state change")
           ELSE IF ~old_tree.ok THEN Fails("Failed to parse old tree")
           ELSE IF ~new_tree.ok THEN Fails("Failed to parse new tree")
           ELSE Parsed(t, call @@ [old_tree |-> old_tree.node, new_tree |-> new_tree.node])
        /\ UNCHANGED <<PREDICTORS, NEXT_PREDICTOR_ID, shadow, METRICS, now>>

LearnResult(r) == IF r.ok THEN FfiSuccess ELSE error_str("Learn failed")

FinishLearn(t) ==
    LET call == threads[t]
        serials == learn(shadow[call.handle].patterns, shadow[call.handle].config,
                         call.state_change[1], call.old_tree, call.new_tree, now)
    IN  /\ call.pc = "locked" /\ call.op = "learn"
        /\ \E r \in learn(call.entry.patterns, call.entry.config,
                          call.state_change[1], call.old_tree, call.new_tree, now) :
              LET serial == IF r \in serials THEN r ELSE CHOOSE x \in serials : TRUE
              IN  /\ PREDICTORS' = [PREDICTORS EXCEPT ![call.handle] =
                                       [call.entry EXCEPT !.patterns = r.patterns]]
                  /\ shadow' = [shadow EXCEPT ![call.handle].patterns = serial.patterns]
                  /\ METRICS' = LearnMetrics(METRICS, r)
                  /\ Returns(t, call @@ [left |-> r.patterns[make_pattern_key(call.state_change[1])]],
                             LearnResult(r), LearnResult(serial))
        /\ Unlocks(t)
        /\ now' = now + 1
        /\ UNCHANGED NEXT_PREDICTOR_ID

PredictResult(prediction) ==
    IF prediction # None
    THEN JsonPtr([ok |-> TRUE, data |-> prediction[1]])
    ELSE JsonPtr([ok |-> FALSE,
                  error |-> "No prediction available (confidence too low or no matching pattern)"])

BeginPredict(t, handle, state_change_json, current_tree_json) ==
    LET call == [pc |-> "start", op |-> "predict", began |-> Len(history), handle |-> handle,
                 state_change |-> state_change_json]
        current_tree == deserialize_vnode_safe(current_tree_json, ValidationConfigDefault)
        Fails(result) == /\ Returns(t, call, result, result)
                         /\ UNCHANGED guards
    IN  /\ threads[t] = IdleThread /\ Begun < MaxFfiCalls
        /\ IF state_change_json = None THEN Fails(NullPtr)
           ELSE IF ~current_tree.ok THEN Fails(NullPtr)
           ELSE Parsed(t, call @@ [current_tree |-> current_tree.node])
        /\ UNCHANGED <<PREDICTORS, NEXT_PREDICTOR_ID, shadow, METRICS, now>>

FinishPredict(t) ==
    LET call == threads[t]
        r == predict(call.entry.patterns, call.entry.config,
                     call.state_change[1], call.current_tree)
        serial == predict(shadow[call.handle].patterns, shadow[call.handle].config,
                          call.state_change[1], call.current_tree)
    IN  /\ call.pc = "locked" /\ call.op = "predict"
        /\ PREDICTORS' = [PREDICTORS EXCEPT ![call.handle] =
                             [call.entry EXCEPT !.patterns = r.patterns]]
        /\ shadow' = [shadow EXCEPT ![call.handle].patterns = serial.patterns]
        /\ METRICS' = record_prediction(METRICS, r.hit)
        /\ Returns(t, call, PredictResult(r.prediction), PredictResult(serial.prediction))
        /\ Unlocks(t)
        /\ now' = now + 1
        /\ UNCHANGED NEXT_PREDICTOR_ID

\* Predictor::predict_hint: [patterns, prediction, hit], hit being None when
\* predict was not called.
predict_hint(pats, cfg, hint_id, component_id, state_changes, current_tree) ==
    IF Len(state_changes) # 1
    THEN [patterns |-> pats, prediction |-> None, hit |-> None]
    ELSE LET r == predict(pats, cfg, state_changes[1], current_tree)
         IN  [patterns |-> r.patterns, prediction |-> r.prediction, hit |-> Some(r.hit)]

PredictHintResult(hint_id, prediction) ==
    IF prediction # None
    THEN JsonPtr([ok |-> TRUE, hint_id |-> hint_id, data |-> prediction[1]])
    ELSE JsonPtr([ok |-> FALSE, error |-> "No prediction available for hint"])

\* state_changes_json is None or Some(the sequence of state changes read).
BeginPredictHint(t, handle, hint_id, component_id, state_changes_json, current_tree_json) ==
    LET call == [pc |-> "start", op |-> "predict_hint", began |-> Len(history),
                 handle |-> handle, hint_id |-> hint_id, component_id |-> component_id,
                 state_change |-> state_changes_json]
        current_tree == deserialize_vnode_safe(current_tree_json, ValidationConfigDefault)
        Fails(result) == /\ Returns(t, call, result, result)
                         /\ UNCHANGED guards
    IN  /\ threads[t] = IdleThread /\ Begun < MaxFfiCalls
        /\ IF state_changes_json = None THEN Fails(NullPtr)
           ELSE IF ~current_tree.ok THEN Fails(NullPtr)
           ELSE Parsed(t, call @@ [current_tree |-> current_tree.node])
        /\ UNCHANGED <<PREDICTORS, NEXT_PREDICTOR_ID, shadow, METRICS, now>>

FinishPredictHint(t) ==
    LET call == threads[t]
        r == predict_hint(call.entry.patterns, call.entry.config, call.hint_id,
                          call.component_id, call.state_change[1], call.current_tree)
        serial == predict_hint(shadow[call.handle].patterns, shadow[call.handle].config,
                               call.hint_id, call.component_id, call.state_change[1],
                               call.current_tree)
    IN  /\ call.pc = "locked" /\ call.op = "predict_hint"
        /\ PREDICTORS' = [PREDICTORS EXCEPT ![call.handle] =
                             [call.entry EXCEPT !.patterns = r.patterns]]
        /\ shadow' = [shadow EXCEPT ![call.handle].patterns = serial.patterns]
        /\ METRICS' = IF r.hit = None THEN METRICS ELSE record_prediction(METRICS, r.hit[1])
        /\ Returns(t, call, PredictHintResult(call.hint_id, r.prediction),
                   PredictHintResult(call.hint_id, serial.prediction))
        /\ Unlocks(t)
        /\ now' = IF r.hit = None THEN now ELSE now + 1
        /\ UNCHANGED NEXT_PREDICTOR_ID

BeginStats(t, handle) ==
    LET call == [pc |-> "start", op |-> "stats", began |-> Len(history), handle |-> handle]
    IN  /\ threads[t] = IdleThread /\ Begun < MaxFfiCalls
        /\ Parsed(t, call)
        /\ UNCHANGED <<PREDICTORS, NEXT_PREDICTOR_ID, shadow, METRICS, now>>

FinishStats(t) ==
    LET call == threads[t]
    IN  /\ call.pc = "locked" /\ call.op = "stats"
        /\ Returns(t, call, JsonPtr(stats(call.entry.patterns)),
                   JsonPtr(stats(shadow[call.handle].patterns)))
        /\ Unlocks(t)
        /\ UNCHANGED <<PREDICTORS, NEXT_PREDICTOR_ID, shadow, METRICS, now>>

BeginSave(t, handle) ==
    LET call == [pc |-> "start", op |-> "save", began |-> Len(history), handle |-> handle]
    IN  /\ threads[t] = IdleThread /\ Begun < MaxFfiCalls
        /\ Parsed(t, call)
        /\ UNCHANGED <<PREDICTORS, NEXT_PREDICTOR_ID, shadow, METRICS, now>>

FinishSave(t) ==
    LET call == threads[t]
    IN  /\ call.pc = "locked" /\ call.op = "save"
        /\ Returns(t, call, JsonPtr(save_to_json(call.entry.patterns, call.entry.config)),
                   JsonPtr(save_to_json(shadow[call.handle].patterns,
                                        shadow[call.handle].config)))
        /\ Unlocks(t)
        /\ UNCHANGED <<PREDICTORS, NEXT_PREDICTOR_ID, shadow, METRICS, now>>

(* The registry under calls from two host threads. *)

FfiFrame ==
    UNCHANGED <<patterns, config, inserted, observed, last, loaded, LOGGER, RecVars, PVVars>>

TreeText(node) == [len |-> 64, node |-> Some(node)]

LoadTexts == {None, Some(save_to_json(NewStore, ConfigDefault))}

HandleArgs == {1, 2}

FfiInit ==
    /\ PREDICTORS = <<>>
    /\ NEXT_PREDICTOR_ID = 1
    /\ guards = {}
    /\ threads = [t \in Threads |-> IdleThread]
    /\ history = <<>>
    /\ shadow = <<>>
    /\ METRICS = MetricsNew
    /\ now = 0
    /\ patterns = Idle /\ config = Idle /\ inserted = Idle /\ observed = Idle
    /\ last = Idle /\ loaded = Idle /\ LOGGER = Idle
    /\ RecIdle /\ PVIdle

HandlesNext ==
    \/ \E t \in Threads : BeginNew(t) /\ FfiFrame
    \/ \E t \in Threads : BeginNewWithConfig(t, 50, 1) /\ FfiFrame
    \/ \E t \in Threads, json \in LoadTexts : BeginLoad(t, json) /\ FfiFrame
    \/ \E t \in Threads : Insert(t) /\ FfiFrame
    \/ \E t \in Threads : RecordCreated(t) /\ FfiFrame
    \/ \E t \in Threads, h \in HandleArgs : BeginDestroy(t, h) /\ FfiFrame
    \/ \E t \in Threads : RecordDestroyed(t) /\ FfiFrame

SpecHandles == FfiInit /\ [][HandlesNext]_vars

RegistryNext ==
    \/ \E t \in Threads : BeginNew(t) /\ FfiFrame
    \/ \E t \in Threads : Insert(t) /\ FfiFrame
    \/ \E t \in Threads : RecordCreated(t) /\ FfiFrame
    \/ \E t \in Threads, h \in {1} : BeginDestroy(t, h) /\ FfiFrame
    \/ \E t \in Threads : RecordDestroyed(t) /\ FfiFrame
    \/ \E t \in Threads, h \in {1} :
          BeginLearn(t, h, Some(ChangeCount), TreeText(TextC1), TreeText(TextC2)) /\ FfiFrame
    \/ \E t \in Threads : FinishLearn(t) /\ FfiFrame
    \/ \E t \in Threads, h \in {1} :
          BeginPredict(t, h, Some(ChangeCount), TreeText(TextC1)) /\ FfiFrame
    \/ \E t \in Threads : FinishPredict(t) /\ FfiFrame
    \/ \E t \in Threads, h \in {1} : BeginStats(t, h) /\ FfiFrame
    \/ \E t \in Threads : FinishStats(t) /\ FfiFrame
    \/ \E t \in Threads, h \in {1} : BeginSave(t, h) /\ FfiFrame
    \/ \E t \in Threads : FinishSave(t) /\ FfiFrame
    \/ \E t \in Threads : Lookup(t) /\ FfiFrame

SpecRegistry == FfiInit /\ [][RegistryNext]_vars

(* One registered predictor serving learn, predict and stats calls. *)

\* The registry after minimact_predictor_new returned handle 1; the history
\* holds the calls made since.
ServingInit ==
    /\ PREDICTORS = DashMapInsert(<<>>, 1, PredictorNew)
    /\ NEXT_PREDICTOR_ID = 2
    /\ guards = {}
    /\ threads = [t \in Threads |-> IdleThread]
    /\ history = <<>>
    /\ shadow = DashMapInsert(<<>>, 1, PredictorNew)
    /\ METRICS = record_predictor_created(MetricsNew)
    /\ now = 0
    /\ patterns = Idle /\ config = Idle /\ inserted = Idle /\ observed = Idle
    /\ last = Idle /\ loaded = Idle /\ LOGGER = Idle
    /\ RecIdle /\ PVIdle

ServingNext ==
    \/ \E t \in Threads, sc \in {ChangeCount, ChangeFlag} :
          BeginLearn(t, 1, Some(sc), TreeText(TextC1), TreeText(TextC2)) /\ FfiFrame
    \/ \E t \in Threads : FinishLearn(t) /\ FfiFrame
    \/ \E t \in Threads, sc \in {ChangeCount, ChangeFlag} :
          BeginPredict(t, 1, Some(sc), TreeText(TextC1)) /\ FfiFrame
    \/ \E t \in Threads : FinishPredict(t) /\ FfiFrame
    \/ \E t \in Threads : BeginStats(t, 1) /\ FfiFrame
    \/ \E t \in Threads : FinishStats(t) /\ FfiFrame
    \/ \E t \in Threads : Lookup(t) /\ FfiFrame

SpecServing == ServingInit /\ [][ServingNext]_vars

-----------------------------------------------------------------------------
(* Claims about calls on one handle (SpecServing). *)

\* C11: concurrent learn, predict and stats calls on one handle leave the
\* predictor, and return, what they do when run one at a time in the order
\* in which they dropped their guards, an order that keeps every call inside
\* its own begin and return; and a predict that begins after a learn on the
\* handle has returned success works on an entry that holds, under that
\* learn's key, every pattern the learn left, observed at least as often.
C11_CallsOnOneHandleAreSerial ==
    /\ \A h \in DOMAIN PREDICTORS : PREDICTORS[h] = shadow[h]
    /\ \A i \in 1..Len(history) : history[i].result = history[i].serial
    /\ \A i \in 1..Len(history), j \in 1..Len(history) :
          (/\ i < j
           /\ history[i].op = "learn" /\ history[i].result = FfiSuccess
           /\ history[j].op = "predict" /\ history[j].handle = history[i].handle
           /\ history[j].began >= i
           /\ "entry" \in DOMAIN history[j]
           /\ make_pattern_key(history[j].state_change[1])
                 = make_pattern_key(history[i].state_change[1]))
             => LET pattern_key == make_pattern_key(history[i].state_change[1])
                    left == history[i].left[1]
                    seen == history[j].entry.patterns[pattern_key]
                IN  /\ seen # None
                    /\ \A p \in 1..Len(left) : \E q \in 1..Len(seen[1]) :
                          /\ seen[1][q].pattern_type = left[p].pattern_type
                          /\ seen[1][q].patches = left[p].patches
                          /\ seen[1][q].observation_count >= left[p].observation_count

\* Two learns of the count change overlapped (the second began before the
\* first returned), and a predict that began after both returned worked on the
\* pattern observed twice and returned a prediction.
C11_Witness ==
    /\ Len(history) = 3
    /\ history[1].op = "learn" /\ history[2].op = "learn"
    /\ history[1].state_change = Some(ChangeCount)
    /\ history[2].state_change = Some(ChangeCount)
    /\ history[2].began = 0 /\ history[2].result = FfiSuccess
    /\ history[3].op = "predict" /\ history[3].began = 2
    /\ history[3].state_change = Some(ChangeCount)
    /\ history[3].result.ptr = "string" /\ history[3].result.json.ok
    /\ history[3].entry.patterns[make_pattern_key(ChangeCount)] = history[2].left
    /\ history[2].left[1][1].observation_count = 2

-----------------------------------------------------------------------------
(* Claims about the handles (SpecHandles). *)

CreationOps == {"new", "new_with_config", "load"}

\* C13: every handle returned by predictor_new, predictor_new_with_config or
\* a successful predictor_load is >= 1 and differs from every handle returned
\* by another creation, whether that predictor was destroyed since or the
\* caller ran concurrently; a failing predictor_load returns 0 and registers
\* no predictor.
C13_HandlesAreFreshAndPositive ==
    LET creations == {i \in 1..Len(history) : history[i].op \in CreationOps}
        succeeded == {i \in creations : history[i].parsed}
        inserting == {threads[t].handle : t \in {u \in Threads : threads[u].pc = "record_created"}}
    IN  /\ \A i \in succeeded :
              /\ history[i].result >= 1
              /\ \A j \in succeeded : j # i => history[j].result # history[i].result
        /\ \A i \in creations \ succeeded : history[i].result = 0
        /\ DOMAIN PREDICTORS \subseteq {history[i].result : i \in succeeded} \cup inserting

\* A handle was issued and destroyed, and a load that began afterwards
\* returned another handle.
C13_Witness ==
    /\ Len(history) = 3
    /\ history[1].op = "new" /\ history[1].result = 1
    /\ history[2].op = "destroy" /\ history[2].handle = 1 /\ history[2].result = FfiSuccess
    /\ history[3].op = "load" /\ history[3].parsed /\ history[3].began = 2
    /\ history[3].result = 2

-----------------------------------------------------------------------------
(* Claims about destroyed handles (SpecRegistry). *)

\* What each handler returns for a handle that is not in the registry.
InvalidHandleResult(op) ==
    CASE op \in {"learn", "destroy"} -> error_str("Invalid predictor handle")
      [] op = "predict" -> JsonPtr([ok |-> FALSE, error |-> "Invalid predictor handle"])
      [] op \in {"stats", "save"} -> NullPtr

DestroyedReturns(h) ==
    {i \in 1..Len(history) : /\ history[i].op = "destroy" /\ history[i].handle = h
                             /\ history[i].result = FfiSuccess}

\* C12: once predictor_destroy(h) has returned success, h is not in the
\* registry and every learn, predict, stats, save or destroy on h that begins
\* afterwards reports an invalid handle; a handle that was registered is gone
\* exactly when one destroy on it has succeeded, so of several destroys on a
\* live handle exactly one succeeds; and current_predictors is the number of
\* creations returned less one for each destroy that returned success.
C12_DestroyedHandleStaysInvalid ==
    LET Handles == 1..MaxFfiCalls
        registered == {history[i].handle : i \in {j \in 1..Len(history) : history[j].op = "new"}}
                          \cup {threads[t].handle :
                                   t \in {u \in Threads : threads[u].pc = "record_created"}}
        removing(h) == {t \in Threads : /\ threads[t].pc = "record_destroyed"
                                        /\ threads[t].handle = h}
        created == Cardinality({i \in 1..Len(history) : history[i].op = "new"})
        destroyed == Cardinality(UNION {DestroyedReturns(h) : h \in Handles})
    IN  /\ \A h \in Handles : \A i \in DestroyedReturns(h) :
              /\ h \notin DOMAIN PREDICTORS
              /\ \A j \in 1..Len(history) :
                    (j > i /\ history[j].began >= i /\ history[j].handle = h)
                       => history[j].result = InvalidHandleResult(history[j].op)
        /\ \A h \in Handles :
              IF h \in registered
              THEN (h \notin DOMAIN PREDICTORS)
                      <=> Cardinality(DestroyedReturns(h)) + Cardinality(removing(h)) = 1
              ELSE DestroyedReturns(h) = {} /\ removing(h) = {}
        /\ \A h \in DOMAIN PREDICTORS : DestroyedReturns(h) = {} /\ removing(h) = {}
        /\ METRICS.current_predictors = created - destroyed

\* Two destroy calls on handle 1 began while neither had returned: one
\* succeeded, the other reported an invalid handle.
C12_Witness ==
    /\ Len(history) = 3
    /\ history[1].op = "new" /\ history[1].result = 1
    /\ history[2].op = "destroy" /\ history[2].handle = 1 /\ history[2].began = 1
    /\ history[3].op = "destroy" /\ history[3].handle = 1 /\ history[3].began = 1
    /\ history[2].result = error_str("Invalid predictor handle")
    /\ history[3].result = FfiSuccess
    /\ METRICS.current_predictors = 0

-----------------------------------------------------------------------------
(* One predict or predict_hint call per thread on a registry holding one
   predictor, new or having learnt the count change. *)

PredictorTrained ==
    [PredictorNew EXCEPT !.patterns =
        (CHOOSE r \in learn(NewStore, ConfigDefault, ChangeCount, TextC1, TextC2, 0) : r.ok).patterns]

StateChangeTexts == {None, Some(ChangeCount), Some(ChangeName)}

StateChangesTexts ==
    {None, Some(<<>>), Some(<<ChangeCount>>), Some(<<ChangeName>>), Some(<<ChangeCount, ChangeFlag>>)}

\* A readable tree, a text that is no VNode, a tree over a limit, and a text
\* longer than max_json_size.
PredictTreeTexts ==
    { TreeText(TextC1), [len |-> 64, node |-> None], TreeText(LongProp),
      [len |-> max_json_size + 1, node |-> Some(TextC1)] }

PredictFfiInit ==
    /\ \E p \in {PredictorNew, PredictorTrained} :
          /\ PREDICTORS = DashMapInsert(<<>>, 1, p)
          /\ shadow = DashMapInsert(<<>>, 1, p)
    /\ NEXT_PREDICTOR_ID = 2
    /\ guards = {}
    /\ threads = [t \in Threads |-> IdleThread]
    /\ history = <<>>
    /\ METRICS = record_predictor_created(MetricsNew)
    /\ now = 1
    /\ patterns = Idle /\ config = Idle /\ inserted = Idle /\ observed = Idle
    /\ last = Idle /\ loaded = Idle /\ LOGGER = Idle
    /\ RecIdle /\ PVIdle

PredictFfiNext ==
    \/ \E t \in Threads, h \in HandleArgs, sc \in StateChangeTexts, tr \in PredictTreeTexts :
          history = <<>> /\ BeginPredict(t, h, sc, tr) /\ FfiFrame
    \/ \E t \in Threads : FinishPredict(t) /\ FfiFrame
    \/ \E t \in Threads, h \in HandleArgs, scs \in StateChangesTexts, tr \in PredictTreeTexts :
          history = <<>> /\ BeginPredictHint(t, h, <<"h">>, <<"c">>, scs, tr) /\ FfiFrame
    \/ \E t \in Threads : FinishPredictHint(t) /\ FfiFrame
    \/ \E t \in Threads : Lookup(t) /\ FfiFrame

SpecPredictFfi == PredictFfiInit /\ [][PredictFfiNext]_vars

-----------------------------------------------------------------------------
(* Claims about what predict and predict_hint return (SpecPredictFfi). *)

\* C19: every predict and predict_hint call given valid C strings returns a
\* JSON object {ok:true, data} or {ok:false, error}; in particular an
\* unreadable state-change JSON, an unreadable or over-limit tree, an invalid
\* handle and an absent prediction each return {ok:false, error}.
C19_PredictReturnsWrappedJson ==
    \A i \in 1..Len(history) :
        history[i].op \in {"predict", "predict_hint"}
            => /\ history[i].result.ptr = "string"
               /\ history[i].result.json.ok => "data" \in DOMAIN history[i].result.json
               /\ ~history[i].result.json.ok => "error" \in DOMAIN history[i].result.json

-----------------------------------------------------------------------------
(* Logger::log called from two threads.  The two atomics are read and the
   entry is built before the buffer's mutex is taken; the removal of the
   oldest entry and the push happen under the mutex. *)

\* log from the mutex on, dropping the newest entry of a full buffer.
log_push_DropNewest(logger, entry) ==
    LET kept == IF Len(logger.entries) >= max_entries
                THEN SubSeq(logger.entries, 1, Len(logger.entries) - 1)
                ELSE logger.entries
    IN  [logger EXCEPT !.entries = Append(kept, entry)]

\* log from the mutex on: entries.remove(0) at capacity, then entries.push.
log_push(logger, entry) ==
    LET kept == IF Len(logger.entries) >= max_entries
                THEN Tail(logger.entries) ELSE logger.entries
    IN  [logger EXCEPT !.entries = Append(kept, entry)]

\* history holds the entries pushed since the start or the latest clear, in
\* the order of the pushes; shadow is the number of entries the buffer held
\* at that moment.
LogBufferInit ==
    /\ \E full \in BOOLEAN :
          /\ LOGGER = [enable(LoggerNew) EXCEPT !.entries = IF full THEN FullBuffer ELSE <<>>]
          /\ shadow = IF full THEN max_entries ELSE 0
    /\ now = 1
    /\ threads = [t \in Threads |-> IdleThread]
    /\ history = <<>>
    /\ last = NoCall
    /\ METRICS = MetricsNew
    /\ patterns = Idle /\ config = Idle
    /\ inserted = Idle /\ observed = Idle /\ loaded = Idle
    /\ PREDICTORS = Idle /\ NEXT_PREDICTOR_ID = Idle /\ guards = Idle
    /\ RecIdle /\ PVIdle

LogBufferFrame ==
    UNCHANGED <<patterns, config, METRICS, inserted, observed, loaded, last, RecVars, PVVars,
                PREDICTORS, NEXT_PREDICTOR_ID, guards>>

\* if !self.is_enabled() { return; }
LogIsEnabled(t, lvl) ==
    /\ threads[t] = IdleThread
    /\ now <= MaxLogs
    /\ threads' = [threads EXCEPT ![t] =
                      IF is_enabled(LOGGER) THEN [pc |-> "level", level |-> lvl] ELSE IdleThread]
    /\ UNCHANGED <<LOGGER, now, history, shadow>> /\ LogBufferFrame

\* if level < self.level() { return; } and the entry with Instant::now().
LogLevelCheck(t) ==
    /\ threads[t].pc = "level"
    /\ IF threads[t].level < level(LOGGER)
       THEN threads' = [threads EXCEPT ![t] = IdleThread] /\ UNCHANGED now
       ELSE /\ threads' = [threads EXCEPT ![t] =
                              [pc |-> "push",
                               entry |-> LogEntry(threads[t].level, "test", <<"m">>, now)]]
            /\ now' = now + 1
    /\ UNCHANGED <<LOGGER, history, shadow>> /\ LogBufferFrame

LogPush(t) ==
    /\ threads[t].pc = "push"
    /\ LOGGER' = log_push(LOGGER, threads[t].entry)
    /\ history' = Append(history, threads[t].entry)
    /\ threads' = [threads EXCEPT ![t] = IdleThread]
    /\ UNCHANGED <<now, shadow>> /\ LogBufferFrame

LogSetLevel(lvl) ==
    /\ LOGGER' = set_level(LOGGER, lvl)
    /\ UNCHANGED <<now, threads, history, shadow>> /\ LogBufferFrame

LogDisable ==
    /\ LOGGER' = disable(LOGGER)
    /\ UNCHANGED <<now, threads, history, shadow>> /\ LogBufferFrame

LogClear ==
    /\ LOGGER' = clear(LOGGER)
    /\ history' = <<>>
    /\ shadow' = 0
    /\ UNCHANGED <<now, threads>> /\ LogBufferFrame

LogBufferNext ==
    \/ \E t \in Threads, lvl \in {Debug, Warn} : LogIsEnabled(t, lvl)
    \/ \E t \in Threads : LogLevelCheck(t)
    \/ \E t \in Threads : LogPush(t)
    \/ \E lvl \in {Debug, Warn} : LogSetLevel(lvl)
    \/ LogDisable
    \/ LogClear

SpecLogBuffer == LogBufferInit /\ [][LogBufferNext]_vars

-----------------------------------------------------------------------------
(* Claims about the log buffer (SpecLogBuffer). *)

\* C21: the buffer never holds more than max_entries entries, and it holds
\* exactly the most recently pushed entries in the order of their pushes: of
\* the entries it held at the start followed by those pushed since, the last
\* max_entries.
C21_BufferHoldsNewestInOrder ==
    LET n == Len(LOGGER.entries)
        total == shadow + Len(history)
        Accepted(i) == IF i <= shadow THEN LogEntry(Info, "test", <<"o">>, 0)
                       ELSE history[i - shadow]
    IN  /\ n <= max_entries
        /\ n = IF total <= max_entries THEN total ELSE max_entries
        /\ \A i \in 1..n : LOGGER.entries[i] = Accepted(total - n + i)

\* Two threads pushed onto a full buffer, the entry built later first: the
\* buffer is still full and ends with the two entries in push order.
C21_Witness ==
    /\ shadow = max_entries /\ Len(history) = 2
    /\ history[1].timestamp > history[2].timestamp
    /\ Len(LOGGER.entries) = max_entries
    /\ LOGGER.entries[max_entries - 1] = history[1]
    /\ LOGGER.entries[max_entries] = history[2]
    /\ LOGGER.entries[1].timestamp = 0

-----------------------------------------------------------------------------
(* Metrics::record_prediction and Metrics::snapshot called from two threads.
   Every fetch_add and every load is one step; the steps of a thread happen
   in program order.  guards is the holder of the recent_prediction_times
   mutex (0 when free); history holds the snapshots returned.  The hit rate,
   an f64 quotient, is kept as the pair of its operands. *)

MaxRecords == 2

MaxSnapshots == 1

Rate(hits, total) == IF total > 0 THEN [num |-> hits, den |-> total] ELSE [num |-> 0, den |-> 1]

MetricsInit ==
    /\ METRICS = MetricsNew
    /\ threads = [t \in Threads |-> IdleThread]
    /\ guards = 0
    /\ history = <<>>
    /\ last = NoCall
    /\ patterns = Idle /\ config = Idle /\ now = Idle
    /\ inserted = Idle /\ observed = Idle /\ loaded = Idle
    /\ LOGGER = Idle /\ PREDICTORS = Idle /\ NEXT_PREDICTOR_ID = Idle /\ shadow = Idle
    /\ RecIdle /\ PVIdle

MetricsFrame ==
    UNCHANGED <<patterns, config, now, inserted, observed, loaded, last, LOGGER,
                PREDICTORS, NEXT_PREDICTOR_ID, shadow, RecVars, PVVars>>

Snapshots == Len(history) + Cardinality({t \in Threads : threads[t].pc \in {"load_total", "load_rate", "load_hits", "load_misses"}})

\* self.predictor_predictions.fetch_add(1, Ordering::Relaxed);
RecordPredictionCount(t, hit) ==
    /\ threads[t] = IdleThread
    /\ METRICS.predictor_predictions < MaxRecords
    /\ METRICS' = [METRICS EXCEPT !.predictor_predictions = @ + 1]
    /\ threads' = [threads EXCEPT ![t] = [pc |-> "outcome", hit |-> hit]]
    /\ UNCHANGED <<guards, history>> /\ MetricsFrame

\* The fetch_add on predictor_prediction_hits or predictor_prediction_misses
\* (and the one on predictor_total_time_us).
RecordPredictionOutcome(t) ==
    /\ threads[t].pc = "outcome"
    /\ METRICS' = [METRICS EXCEPT
                      !.predictor_prediction_hits = IF threads[t].hit THEN @ + 1 ELSE @,
                      !.predictor_prediction_misses = IF threads[t].hit THEN @ ELSE @ + 1]
    /\ threads' = [threads EXCEPT ![t] = [pc |-> "sample"]]
    /\ UNCHANGED <<guards, history>> /\ MetricsFrame

\* recent_prediction_times.lock(), the sample pushed, the lock released.
RecordPredictionSample(t) ==
    /\ threads[t].pc = "sample"
    /\ guards = 0
    /\ threads' = [threads EXCEPT ![t] = IdleThread]
    /\ UNCHANGED <<METRICS, guards, history>> /\ MetricsFrame

\* The two sample mutexes taken and the averages and percentiles computed.
SnapshotLock(t) ==
    /\ threads[t] = IdleThread
    /\ Snapshots < MaxSnapshots
    /\ guards = 0
    /\ guards' = t
    /\ threads' = [threads EXCEPT ![t] = [pc |-> "load_total"]]
    /\ UNCHANGED <<METRICS, history>> /\ MetricsFrame

\* let total_predictions = self.predictor_predictions.load(Ordering::Relaxed);
SnapshotLoadTotal(t) ==
    /\ threads[t].pc = "load_total"
    /\ threads' = [threads EXCEPT ![t] =
                      [pc |-> "load_rate", total_predictions |-> METRICS.predictor_predictions]]
    /\ UNCHANGED <<METRICS, guards, history>> /\ MetricsFrame

\* let hit_rate = ... predictor_prediction_hits.load() / total_predictions
SnapshotLoadRate(t) ==
    /\ threads[t].pc = "load_rate"
    /\ threads' = [threads EXCEPT ![t] =
                      [pc |-> "load_hits", total_predictions |-> @.total_predictions,
                       hit_rate |-> Rate(METRICS.predictor_prediction_hits, @.total_predictions)]]
    /\ UNCHANGED <<METRICS, guards, history>> /\ MetricsFrame

\* predictor_prediction_hits: self.predictor_prediction_hits.load(...)
SnapshotLoadHits(t) ==
    /\ threads[t].pc = "load_hits"
    /\ threads' = [threads EXCEPT ![t] =
                      [pc |-> "load_misses", total_predictions |-> @.total_predictions,
                       hit_rate |-> @.hit_rate, hits |-> METRICS.predictor_prediction_hits]]
    /\ UNCHANGED <<METRICS, guards, history>> /\ MetricsFrame

\* predictor_prediction_misses loaded, the MetricsSnapshot returned and the
\* mutexes released.
SnapshotLoadMisses(t) ==
    /\ threads[t].pc = "load_misses"
    /\ history' = Append(history,
                         [predictor_predictions |-> threads[t].total_predictions,
                          predictor_prediction_hits |-> threads[t].hits,
                          predictor_prediction_misses |-> METRICS.predictor_prediction_misses,
                          prediction_hit_rate |-> threads[t].hit_rate])
    /\ guards' = 0
    /\ threads' = [threads EXCEPT ![t] = IdleThread]
    /\ UNCHANGED METRICS /\ MetricsFrame

MetricsNext ==
    \/ \E t \in Threads, hit \in BOOLEAN : RecordPredictionCount(t, hit)
    \/ \E t \in Threads : RecordPredictionOutcome(t)
    \/ \E t \in Threads : RecordPredictionSample(t)
    \/ \E t \in Threads : SnapshotLock(t)
    \/ \E t \in Threads : SnapshotLoadTotal(t)
    \/ \E t \in Threads : SnapshotLoadRate(t)
    \/ \E t \in Threads : SnapshotLoadHits(t)
    \/ \E t \in Threads : SnapshotLoadMisses(t)

SpecMetrics == MetricsInit /\ [][MetricsNext]_vars

-----------------------------------------------------------------------------
(* Claims about the metrics (SpecMetrics). *)

\* C22: every snapshot returned, also one taken while record_prediction runs
\* on another thread, has predictor_predictions = predictor_prediction_hits +
\* predictor_prediction_misses and prediction_hit_rate = hits / predictions,
\* which is at most 1.
C22_SnapshotIsConsistent ==
    \A i \in 1..Len(history) :
        LET s == history[i]
        IN  /\ s.predictor_predictions = s.predictor_prediction_hits + s.predictor_prediction_misses
            /\ s.prediction_hit_rate = Rate(s.predictor_prediction_hits, s.predictor_predictions)
            /\ s.prediction_hit_rate.num <= s.prediction_hit_rate.den

-----------------------------------------------------------------------------
(* A predictor that only learns, under configurations whose cap on the
   patterns of a key is reached, for each eviction policy. *)

PatternCalls ==
    { <<ChangeCount, TextC1, TextC2>>, <<ChangeCount, TextC1, EmptyDiv>>,
      <<ChangeCount, EmptyDiv, TwoProps>>, <<ChangeFlag, TextC1, TextC2>>,
      <<ChangeCount, LongProp, TextC1>> }

PatternConfigs ==
    {[ConfigDefault EXCEPT !.max_patterns_per_key = cap, !.eviction_policy = policy] :
        cap \in {1, 2},
        policy \in {"LeastFrequentlyUsed", "LeastRecentlyUsed", "OldestFirst"}}
    \cup {[ConfigDefault EXCEPT !.max_state_keys = 1]}

PatternsInit ==
    /\ StaticIdle
    /\ patterns = NewStore
    /\ config \in PatternConfigs
    /\ METRICS = MetricsNew
    /\ now = 0
    /\ inserted = 0
    /\ observed = {}
    /\ last = NoCall
    /\ loaded = None
    /\ RecIdle /\ PVIdle

PatternsNext == \E c \in PatternCalls : Learn(c[1], c[2], c[3])

SpecPatterns == PatternsInit /\ [][PatternsNext]_vars

-----------------------------------------------------------------------------
(* Claims about the patterns of a key (SpecPatterns). *)

ListOf(pats, k) == IF pats[k] = None THEN <<>> ELSE pats[k][1]

Range(list) == {list[i] : i \in 1..Len(list)}

\* The stored patterns of the given type whose patches have the same length
\* and the same kind at every position as the_patches.
ShapeMatches(list, pattern_type, the_patches) ==
    {i \in 1..Len(list) :
        /\ list[i].pattern_type = pattern_type
        /\ Len(list[i].patches) = Len(the_patches)
        /\ \A n \in 1..Len(the_patches) : list[i].patches[n].type = the_patches[n].type}

\* post is pre with the observation count of one pattern, one of those at
\* the positions in matches, grown by 1, and no pattern added or removed.
OneCountGrown(pre, post, matches) ==
    /\ Len(post) = Len(pre)
    /\ \E i \in matches :
          /\ post[i].observation_count = pre[i].observation_count + 1
          /\ \A j \in 1..Len(pre) : j # i => post[j] = pre[j]

\* C23 (as stated): a successful learn either grows by 1 the observation
\* count of one stored pattern of the same type and shape, adding none, or,
\* when no stored pattern has that type and shape, inserts exactly one new
\* pattern with observation count 1; nothing else in the key's list changes.
C23_LearnGrowsOneCountOrInsertsOne ==
    [][(last'.op = "learn" /\ last'.ok) =>
          \E r \in reconcile(last'.old_tree, last'.new_tree) :
             /\ r.ok
             /\ LET k == make_pattern_key(last'.state_change)
                    pre == ListOf(patterns, k)
                    post == ListOf(patterns', k)
                    matches == ShapeMatches(pre, detect_pattern_type(last'.state_change), r.patches)
                IN  IF matches # {}
                    THEN OneCountGrown(pre, post, matches)
                    ELSE /\ Len(post) = Len(pre) + 1
                         /\ SubSeq(post, 1, Len(pre)) = pre
                         /\ post[Len(post)].observation_count = 1
                         /\ post[Len(post)].patches = r.patches]_vars

\* C23 (amended): the same, for the list that enforce_memory_limits leaves
\* under the key when the learn begins, and with the cap applied after the
\* insertion: the list then holds max_patterns_per_key patterns, each of them
\* a stored pattern with its count unchanged or the new pattern with count
\* 1, which can itself be the one removed.
C23_LearnGrowsOneCountOrInsertsOneUnderCap ==
    [][(last'.op = "learn" /\ last'.ok) =>
          \E r \in reconcile(last'.old_tree, last'.new_tree) :
             /\ r.ok
             /\ \E e \in enforce_memory_limits(patterns, config, now) :
                   LET k == make_pattern_key(last'.state_change)
                       pre == ListOf(e.patterns, k)
                       post == ListOf(patterns', k)
                       pattern_type == detect_pattern_type(last'.state_change)
                       matches == ShapeMatches(pre, pattern_type, r.patches)
                       added == Range(post) \ Range(pre)
                   IN  IF matches # {}
                       THEN OneCountGrown(pre, post, matches)
                       ELSE /\ Len(post) = IF Len(pre) + 1 > config.max_patterns_per_key
                                           THEN config.max_patterns_per_key ELSE Len(pre) + 1
                            /\ Cardinality(Range(post)) = Len(post)
                            /\ Cardinality(added) <= 1
                            /\ Len(pre) + 1 <= config.max_patterns_per_key
                                  => SubSeq(post, 1, Len(pre)) = pre /\ Cardinality(added) = 1
                            /\ \A p \in added :
                                  /\ p.observation_count = 1
                                  /\ p.pattern_type = pattern_type
                                  /\ p.patches = r.patches]_vars

\* Under LeastFrequentlyUsed with a cap of 1, a learn of a change whose
\* patch is a Replace succeeded while an UpdateText pattern was stored: the
\* list still holds that pattern alone.
C23_Witness ==
    /\ last.op = "learn" /\ last.ok
    /\ last.new_tree = EmptyDiv
    /\ config.max_patterns_per_key = 1
    /\ config.eviction_policy = "LeastFrequentlyUsed"
    /\ LET list == ListOf(patterns, make_pattern_key(last.state_change))
       IN  Len(list) = 1 /\ list[1].patches[1].type = "UpdateText"

\* What the active policy sorts a pattern by.
PolicyKey(pattern, cfg) ==
    IF cfg.eviction_policy = "LeastFrequentlyUsed" THEN pattern.observation_count
    ELSE IF cfg.eviction_policy = "LeastRecentlyUsed" THEN pattern.last_accessed
    ELSE pattern.created_at

\* C24: after every learn each key holds at most max_patterns_per_key
\* patterns, and when the insertion of a new pattern exceeded the cap, every
\* pattern removed (the new one, of count 1 and stamped now, included) has at
\* most the observation count (LeastFrequentlyUsed), the last_accessed
\* (LeastRecentlyUsed) or the created_at (OldestFirst) of every pattern kept.
C24_CapKeepsBestScored ==
    [][last'.op = "learn" =>
          /\ \A k \in DOMAIN patterns' :
                Len(ListOf(patterns', k)) <= config.max_patterns_per_key
          /\ last'.ok =>
                \E r \in reconcile(last'.old_tree, last'.new_tree) :
                   /\ r.ok
                   /\ \E e \in enforce_memory_limits(patterns, config, now) :
                         LET k == make_pattern_key(last'.state_change)
                             pre == ListOf(e.patterns, k)
                             post == ListOf(patterns', k)
                             pattern_type == detect_pattern_type(last'.state_change)
                             new_kept == \E p \in Range(post) \ Range(pre) : p.created_at = now
                             new_key == IF config.eviction_policy = "LeastFrequentlyUsed"
                                        THEN 1 ELSE now
                         IN  (/\ ShapeMatches(pre, pattern_type, r.patches) = {}
                              /\ Len(pre) + 1 > config.max_patterns_per_key)
                             => /\ Len(post) = config.max_patterns_per_key
                                /\ Range(post) \subseteq Range(pre) \cup {p \in Range(post) : p.created_at = now}
                                /\ \A kept \in Range(post) :
                                      /\ \A gone \in Range(pre) \ Range(post) :
                                            PolicyKey(gone, config) <= PolicyKey(kept, config)
                                      /\ ~new_kept => new_key <= PolicyKey(kept, config)]_vars

\* Under LeastRecentlyUsed with a cap of 2, a third pattern was learnt when
\* the older of the two stored ones had been observed again: the list holds
\* the new pattern and the older one, and the pattern created second is gone.
C24_Witness ==
    /\ last.op = "learn" /\ last.ok /\ now = 4
    /\ config.max_patterns_per_key = 2
    /\ config.eviction_policy = "LeastRecentlyUsed"
    /\ LET list == ListOf(patterns, make_pattern_key(last.state_change))
       IN  /\ Len(list) = 2
           /\ list[1].created_at = 3 /\ list[1].observation_count = 1
           /\ list[2].created_at = 0 /\ list[2].last_accessed = 2

-----------------------------------------------------------------------------
(* learn with its eviction loop run one iteration at a time.  shadow is the
   learn call in progress: reconciled and past the key-level check, it is
   either inside the while loop of evict_to_memory_limit ("evicting") or
   about to store its pattern ("store"). *)

IdleCall == [pc |-> "idle"]

\* One iteration of the loop, removing every key of least score.
evict_one_key_AllLeast(pats, cfg, t) == {Without(pats, find_key_to_evict(pats, cfg, t))}

\* One iteration of the while loop of evict_to_memory_limit: the key that
\* find_key_to_evict names is removed.
evict_one_key(pats, cfg, t) == {Without(pats, {k}) : k \in find_key_to_evict(pats, cfg, t)}

\* The condition of the while loop of evict_to_memory_limit.
evict_continues(pats, cfg) ==
    estimate_memory_usage(pats) > (cfg.max_memory_bytes * 9) \div 10 /\ KeysIn(pats) # {}

EvictionCalls ==
    { <<ChangeCount, TextC1, TextC2>>, <<ChangeFlag, TextC1, TextC2>>,
      <<ChangeName, TextC1, TextC2>>, <<ChangeCount, LongProp, TextC1>> }

EvictionConfigs ==
    UNION {{[ConfigDefault EXCEPT !.max_memory_bytes = 900, !.eviction_policy = policy],
            [ConfigDefault EXCEPT !.max_memory_bytes = 1000, !.eviction_policy = policy],
            [ConfigDefault EXCEPT !.max_state_keys = 2, !.eviction_policy = policy]} :
           policy \in {"LeastFrequentlyUsed", "LeastRecentlyUsed", "OldestFirst"}}

EvictionInit ==
    /\ patterns = NewStore
    /\ config \in EvictionConfigs
    /\ METRICS = MetricsNew
    /\ now = 0
    /\ last = NoCall
    /\ shadow = IdleCall
    /\ inserted = Idle /\ observed = Idle /\ loaded = Idle
    /\ LOGGER = Idle /\ PREDICTORS = Idle /\ NEXT_PREDICTOR_ID = Idle
    /\ guards = Idle /\ threads = Idle /\ history = Idle
    /\ RecIdle /\ PVIdle

EvictionFrame ==
    UNCHANGED <<config, inserted, observed, loaded, LOGGER, PREDICTORS, NEXT_PREDICTOR_ID,
                guards, threads, history, RecVars, PVVars>>

\* learn up to the memory check of enforce_memory_limits: reconcile, then
\* evict_state_keys when there are more keys than max_state_keys.
LearnBegin(state_change, old_tree, new_tree) ==
    /\ shadow = IdleCall
    /\ now < MaxCalls
    /\ \E r \in reconcile(old_tree, new_tree) :
          IF r.ok
          THEN \E a \in IF Cardinality(KeysIn(patterns)) > config.max_state_keys
                        THEN evict_state_keys(patterns, config, now)
                        ELSE {[patterns |-> patterns, evicted |-> 0]} :
                  /\ patterns' = a.patterns
                  /\ METRICS' = record_eviction(METRICS, a.evicted)
                  /\ shadow' = [pc |-> IF /\ estimate_memory_usage(a.patterns) > config.max_memory_bytes
                                          /\ estimate_memory_usage(a.patterns)
                                                > (config.max_memory_bytes * 9) \div 10
                                       THEN "evicting" ELSE "store",
                                state_change |-> state_change, old_tree |-> old_tree,
                                new_tree |-> new_tree, the_patches |-> r.patches,
                                memory_evicted |-> FALSE]
                  /\ UNCHANGED <<now, last>>
          ELSE /\ METRICS' = LearnMetrics(METRICS, learn_rejected(patterns, r.error))
               /\ last' = [op |-> "learn", state_change |-> state_change, old_tree |-> old_tree,
                           new_tree |-> new_tree, ok |-> FALSE, error |-> r.error]
               /\ now' = now + 1
               /\ UNCHANGED <<patterns, shadow>>
    /\ EvictionFrame

EvictOne ==
    /\ shadow.pc = "evicting"
    /\ evict_continues(patterns, config)
    /\ patterns' \in evict_one_key(patterns, config, now)
    /\ METRICS' = record_eviction(METRICS, 1)
    /\ UNCHANGED <<now, last, shadow>> /\ EvictionFrame

EvictReturn ==
    /\ shadow.pc = "evicting"
    /\ ~evict_continues(patterns, config)
    /\ shadow' = [shadow EXCEPT !.pc = "store", !.memory_evicted = TRUE]
    /\ UNCHANGED <<patterns, METRICS, now, last>> /\ EvictionFrame

\* learn from the pattern list on; the limits were enforced by the steps
\* before and enforce_memory_limits inside learn_store finds nothing to do.
LearnStore ==
    /\ shadow.pc = "store"
    /\ \E r \in learn_store(patterns, config, shadow.state_change, shadow.old_tree,
                            shadow.new_tree, shadow.the_patches, now) :
          /\ patterns' = r.patterns
          /\ METRICS' = LearnMetrics(METRICS, r)
          /\ last' = [op |-> "learn", state_change |-> shadow.state_change,
                      old_tree |-> shadow.old_tree, new_tree |-> shadow.new_tree,
                      ok |-> r.ok, error |-> r.error]
    /\ now' = now + 1
    /\ shadow' = IdleCall
    /\ EvictionFrame

EvictionNext ==
    \/ \E c \in EvictionCalls : LearnBegin(c[1], c[2], c[3])
    \/ EvictOne
    \/ EvictReturn
    \/ LearnStore

SpecEviction == EvictionInit /\ [][EvictionNext]_vars

\* A learn call that has begun runs on to its end.
SpecEvictionFair == SpecEviction /\ WF_vars(EvictOne \/ EvictReturn \/ LearnStore)

-----------------------------------------------------------------------------
(* Claims about eviction (SpecEviction, SpecEvictionFair). *)

\* C25: whenever keys are evicted, by evict_state_keys or by an iteration of
\* evict_to_memory_limit, every key evicted ranks before or with every key
\* left: it has at most its sum of observation counts (LeastFrequentlyUsed),
\* or at least its elapsed seconds since last_accessed (LeastRecentlyUsed) or
\* since created_at (OldestFirst).
C25_EvictedKeysRankFirst ==
    [][(KeysIn(patterns') # KeysIn(patterns) /\ KeysIn(patterns') \subseteq KeysIn(patterns)) =>
          \A gone \in KeysIn(patterns) \ KeysIn(patterns'), left \in KeysIn(patterns') :
             IF config.eviction_policy = "LeastFrequentlyUsed"
             THEN KeyScore(patterns[gone][1], config, now) <= KeyScore(patterns[left][1], config, now)
             ELSE KeyScore(patterns[gone][1], config, now) >= KeyScore(patterns[left][1], config, now)]_vars

\* C26: a memory-level eviction that has begun returns; each of its
\* iterations removes exactly one key, strictly decreases the estimated
\* memory and adds one to evictions_performed; when it has returned the
\* estimated memory is at most 90% of max_memory_bytes or the store is empty.
C26_MemoryEvictionTerminates ==
    /\ (shadow.pc = "evicting") ~> (shadow.pc = "store" /\ shadow.memory_evicted)
    /\ [][shadow.pc = "evicting" /\ patterns' # patterns =>
             /\ KeysIn(patterns') \subseteq KeysIn(patterns)
             /\ Cardinality(KeysIn(patterns) \ KeysIn(patterns')) = 1
             /\ \A k \in KeysIn(patterns') : patterns'[k] = patterns[k]
             /\ estimate_memory_usage(patterns') < estimate_memory_usage(patterns)
             /\ METRICS'.evictions_performed = METRICS.evictions_performed + 1]_vars
    /\ []((shadow.pc = "store" /\ shadow.memory_evicted) =>
             \/ estimate_memory_usage(patterns) * 10 <= config.max_memory_bytes * 9
             \/ KeysIn(patterns) = {})

\* A memory-level eviction returned after two iterations, with the store
\* emptied and still above no limit.
C26_Witness ==
    /\ shadow.pc = "store" /\ shadow.memory_evicted
    /\ METRICS.evictions_performed = 2
    /\ KeysIn(patterns) = {}
    /\ config.max_memory_bytes = 900

-----------------------------------------------------------------------------
(* Claims about the order of the patches (SpecReconcile). *)

IsPrefix(p, q) == Len(p) <= Len(q) /\ SubSeq(q, 1, Len(p)) = p

\* C27: when two elements with unkeyed children are reconciled, the patches
\* for the new tree's sibling i and its subtree all precede those for its
\* sibling j, for i < j, and the Removes of the old siblings that have no
\* counterpart in the new tree follow the patches of every new sibling.
C27_PatchesFollowSiblingOrder ==
    (/\ patches.ok
     /\ old.type = "Element" /\ new.type = "Element" /\ old.tag = new.tag
     /\ KeysOf(old.children) = {} /\ KeysOf(new.children) = {}) =>
       LET ps == patches.patches
           siblings == {i \in 1..Len(new.children) : new.children[i] # None}
           PathOf(i) == new.children[i][1].path
           For(i) == {n \in 1..Len(ps) : IsPrefix(PathOf(i), ps[n].path)}
           vanished == {n \in 1..Len(ps) :
                           /\ ps[n].type = "Remove"
                           /\ \A i \in siblings : PathOf(i) # ps[n].path}
       IN  /\ \A i, j \in siblings : i < j => \A a \in For(i), b \in For(j) : a < b
           /\ \A i \in siblings : \A a \in For(i), b \in vanished : a < b

-----------------------------------------------------------------------------
(* One validate_patches call on a single template patch. *)

\* TemplatePatch: the template string and the bindings; the slots and the
\* optional fields are read by no check.
TemplatePatch(template, bindings) == [template |-> template, bindings |-> bindings]

UpdateTextTemplate(path, template_patch) ==
    [type |-> "UpdateTextTemplate", path |-> path, template_patch |-> template_patch]

UpdatePropsTemplate(path, prop_name, template_patch) ==
    [type |-> "UpdatePropsTemplate", path |-> path, prop_name |-> prop_name,
     template_patch |-> template_patch]

UpdateAttributeDynamic(path, attr_name, template_patch) ==
    [type |-> "UpdateAttributeDynamic", path |-> path, attr_name |-> attr_name,
     template_patch |-> template_patch]

TemplatePatches ==
    {TemplatePatch(template, bindings) :
        template \in {<<>>, <<"{", "0", "}">>}, bindings \in {<<>>, <<<<"n">>>>}}

TemplatePaths == {<<>>, <<0>>, <<1>>, <<max_path_index + 1>>}

TemplatePVPatches ==
    UNION {{UpdateTextTemplate(path, tp), UpdatePropsTemplate(path, <<"c">>, tp),
            UpdateAttributeDynamic(path, <<"c">>, tp), UpdateAttributeDynamic(path, <<>>, tp)} :
           path \in TemplatePaths, tp \in TemplatePatches}

TemplatePVInit ==
    /\ StaticIdle
    /\ tree \in PVTrees
    /\ patch_list \in {<<p>> : p \in TemplatePVPatches}
    /\ verdict = "Pending"
    /\ METRICS = MetricsNew
    /\ RecIdle /\ PredIdle

SpecTemplatePatches == TemplatePVInit /\ [][PVNext]_vars

-----------------------------------------------------------------------------
(* Claims about template patches (SpecTemplatePatches). *)

\* C28: an UpdateTextTemplate, UpdatePropsTemplate or UpdateAttributeDynamic
\* patch with an empty template string or an empty bindings list is
\* rejected; one with both non-empty, a valid path that resolves and (for
\* UpdateAttributeDynamic) a non-empty attribute name is accepted when its
\* target is a Text node (UpdateTextTemplate) or an Element (the other two)
\* and rejected with PatchTypeMismatch when it is not.
C28_TemplatePatchesNeedTemplateAndBindings ==
    verdict # "Pending" =>
       LET patch == patch_list[1]
           wanted == IF patch.type = "UpdateTextTemplate" THEN "Text" ELSE "Element"
           target == get_node_at_path(tree, patch.path)
           named == patch.type = "UpdateAttributeDynamic" => patch.attr_name # <<>>
       IN  IF patch.template_patch.template = <<>> \/ patch.template_patch.bindings = <<>>
           THEN verdict # "Ok"
           ELSE (validate_path(patch.path) = "Ok" /\ target.ok /\ named) =>
                   verdict = IF target.node.type = wanted THEN "Ok" ELSE "PatchTypeMismatch"

-----------------------------------------------------------------------------
(* path.rs: the string form of a HexPath and the conversions to and from
   index paths.  A multiplication or subtraction that leaves the range of
   u32 panics in a build with overflow checks and wraps in one without. *)

HexChar == <<"0", "1", "2", "3", "4", "5", "6", "7", "8", "9", "a", "b", "c", "d", "e", "f">>

\* The four high bits and the 28 low bits of a u32.
High4(seg) == IF seg < 0 THEN seg \div HEX_GAP + 16 ELSE seg \div HEX_GAP
Low28(seg) == seg % HEX_GAP

\* format!("{:x}", n) padded with zeros to width digits, for 0 <= n < 16^width.
RECURSIVE LowerHex(_, _)
LowerHex(n, width) ==
    IF width = 0 THEN <<>> ELSE Append(LowerHex(n \div 16, width - 1), HexChar[(n % 16) + 1])

\* format!("{:08x}", seg)
format_08x(seg) == <<HexChar[High4(seg) + 1]>> \o LowerHex(Low28(seg), 7)

\* HexPath::from_segments: the segments joined with '.'.
RECURSIVE from_segments(_)
from_segments(segs) ==
    IF segs = <<>> THEN <<>>
    ELSE IF Len(segs) = 1 THEN format_08x(segs[1])
    ELSE format_08x(segs[1]) \o <<".">> \o from_segments(Tail(segs))

\* str::split('.')
RECURSIVE split(_, _)
split(s, current) ==
    IF s = <<>> THEN <<current>>
    ELSE IF s[1] = "." THEN <<current>> \o split(Tail(s), <<>>)
    ELSE split(Tail(s), Append(current, s[1]))

HexValue(c) ==
    IF \E d \in 1..16 : HexChar[d] = c THEN (CHOOSE d \in 1..16 : HexChar[d] = c) - 1
    ELSE IF c \in {"A", "B", "C", "D", "E", "F"}
    THEN CHOOSE v \in 10..15 : <<"A", "B", "C", "D", "E", "F">>[v - 9] = c
    ELSE -1

\* The value of at most seven hex digits.
RECURSIVE HexNumber(_)
HexNumber(s) == IF s = <<>> THEN 0 ELSE HexNumber(SubSeq(s, 1, Len(s) - 1)) * 16 + HexValue(s[Len(s)])

RECURSIVE StripZeros(_)
StripZeros(s) == IF s # <<>> /\ s[1] = "0" THEN StripZeros(Tail(s)) ELSE s

\* u32::from_str_radix(seg, 16): an optional '+', then one or more hex digits
\* of a value below 2^32.
from_str_radix_16(seg) ==
    LET digits == IF seg # <<>> /\ seg[1] = "+" THEN Tail(seg) ELSE seg
        sig == StripZeros(digits)
    IN  IF digits = <<>> \/ \E i \in 1..Len(digits) : HexValue(digits[i]) < 0 \/ Len(sig) > 8
        THEN [ok |-> FALSE, value |-> 0]
        ELSE IF Len(sig) = 8
        THEN [ok |-> TRUE,
              value |-> (IF HexValue(sig[1]) < 8 THEN HexValue(sig[1]) ELSE HexValue(sig[1]) - 16)
                        * HEX_GAP + HexNumber(Tail(sig))]
        ELSE [ok |-> TRUE, value |-> HexNumber(sig)]

\* HexPath::segments
segments(path_string) ==
    IF path_string = <<>> THEN [ok |-> TRUE, value |-> <<>>]
    ELSE LET parts == split(path_string, <<>>)
             parsed == [i \in 1..Len(parts) |-> from_str_radix_16(parts[i])]
         IN  IF \E i \in 1..Len(parts) : ~parsed[i].ok THEN [ok |-> FALSE, value |-> <<>>]
             ELSE [ok |-> TRUE, value |-> [i \in 1..Len(parts) |-> parsed[i].value]]

\* HexPath::to_index_path: every outcome a build can produce.  The closure
\* runs segment by segment up to the first Err; seg / HEX_GAP - 1 on a zero
\* segment before it panics, or wraps to 0xffffffff (held as -1).
to_index_path(path_string) ==
    LET segs == segments(path_string)
        unaligned == {i \in 1..Len(segs.value) : Low28(segs.value[i]) # 0}
        reached == IF unaligned = {} THEN Len(segs.value)
                   ELSE (CHOOSE i \in unaligned : \A j \in unaligned : i <= j) - 1
        wrapped == IF unaligned # {} THEN [result |-> "Err", value |-> <<>>]
                   ELSE [result |-> "Ok",
                         value |-> [i \in 1..Len(segs.value) |-> High4(segs.value[i]) - 1]]
    IN  IF ~segs.ok THEN {[result |-> "Err", value |-> <<>>]}
        ELSE {wrapped} \cup IF \E i \in 1..reached : segs.value[i] = 0
                            THEN {[result |-> "Panic", value |-> <<>>]} ELSE {}

\* index_path_to_hex: every outcome a build can produce.
index_path_to_hex(index_path) ==
    {[result |-> "Ok",
      value |-> from_segments([i \in 1..Len(index_path) |-> wrapping_mul_HEX_GAP(index_path[i] + 1)])]}
    \cup IF \E i \in 1..Len(index_path) : index_path[i] + 1 >= 16
         THEN {[result |-> "Panic", value |-> <<>>]} ELSE {}

hex_to_index_path(path_string) == to_index_path(path_string)

\* HexPath::child on the string form: every outcome a build can produce.
child_string(path_string, index) ==
    {[result |-> "Ok",
      value |-> IF path_string = <<>> THEN format_08x(wrapping_mul_HEX_GAP(index + 1))
                ELSE path_string \o <<".">> \o format_08x(wrapping_mul_HEX_GAP(index + 1))]}
    \cup IF index + 1 >= 16 THEN {[result |-> "Panic", value |-> <<>>]} ELSE {}

-----------------------------------------------------------------------------
(* One call of a path function. *)

MaxPathLen == 2

ParentPaths == {<<>>, from_segments(<<HEX_GAP>>), from_segments(<<HEX_GAP, 2 * HEX_GAP>>)}

\* Segments: aligned ones, zero, the largest aligned one and unaligned ones.
PathSegments == {0, 1, HEX_GAP, HEX_GAP + 1, 2 * HEX_GAP, 7 * HEX_GAP, -HEX_GAP, -1}

PathStrings ==
    {from_segments(segs) : segs \in UNION {[1..n -> PathSegments] : n \in 0..MaxPathLen}}
    \cup {<<"z">>, <<"1", "0", "0", "0", "0", "0", "0", "0", ".">>,
          <<"+", "1", "0", "0", "0", "0", "0", "0", "0">>,
          <<"1", "0", "0", "0", "0", "0", "0", "0", "0">>,
          <<"0", "2", "0", "0", "0", "0", "0", "0", "0">>,
          <<"A", "0", "0", "0", "0", "0", "0", "0">>}

IndexLists == UNION {[1..n -> {0, 1, 6, 14, 15, 16}] : n \in 0..MaxPathLen}

PathInit ==
    /\ last = NoCall
    /\ METRICS = Idle
    /\ patterns = Idle /\ config = Idle /\ now = Idle
    /\ inserted = Idle /\ observed = Idle /\ loaded = Idle
    /\ StaticIdle /\ RecIdle /\ PVIdle

PathFrame ==
    UNCHANGED <<patterns, config, METRICS, now, inserted, observed, loaded,
                RecVars, PVVars, StaticVars>>

Child(path_string, index) ==
    /\ last = NoCall
    /\ \E r \in child_string(path_string, index) :
          last' = [op |-> "child", path |-> path_string, index |-> index, returned |-> r]
    /\ PathFrame

ToIndexPath(path_string) ==
    /\ last = NoCall
    /\ \E r \in to_index_path(path_string) :
          last' = [op |-> "to_index_path", path |-> path_string, returned |-> r]
    /\ PathFrame

\* hex_to_index_path(&index_path_to_hex(&index_path))
RoundTrip(index_path) ==
    /\ last = NoCall
    /\ \E h \in index_path_to_hex(index_path) :
          \E r \in IF h.result = "Ok" THEN hex_to_index_path(h.value) ELSE {h} :
             last' = [op |-> "round_trip", index_path |-> index_path, hex |-> h, returned |-> r]
    /\ PathFrame

PathNext ==
    \/ \E p \in ParentPaths, i \in 0..max_children_per_node : Child(p, i)
    \/ \E p \in PathStrings : ToIndexPath(p)
    \/ \E v \in IndexLists : RoundTrip(v)

SpecPath == PathInit /\ [][PathNext]_vars

-----------------------------------------------------------------------------
(* Claims about paths (SpecPath). *)

\* C29: for a parent path p and a child index i in 0 .. max_children_per_node,
\* p.child(i) returns p followed by the segment (i + 1) * 0x10000000 taken in
\* u32 arithmetic, and it differs from p.child(j) for every other index j in
\* that range.
C29_ChildPathsAreDistinct ==
    last.op = "child" =>
       /\ last.returned.result = "Ok"
       /\ last.returned.value =
             IF last.path = <<>> THEN format_08x(wrapping_mul_HEX_GAP(last.index + 1))
             ELSE last.path \o <<".">> \o format_08x(wrapping_mul_HEX_GAP(last.index + 1))
       /\ \A j \in (0..max_children_per_node) \ {last.index} :
             \A other \in child_string(last.path, j) : other.value # last.returned.value

\* C30: to_index_path returns Ok exactly when the path parses into segments
\* that are all positive multiples of 0x10000000, and then yields
\* segment / 0x10000000 - 1 for each; and converting an index list whose
\* segments (i + 1) * 0x10000000 fit in 32 bits to a hex path and back
\* returns the list.
C30_ToIndexPathInvertsAlignedSegments ==
    /\ last.op = "to_index_path" =>
          LET segs == segments(last.path)
              aligned == /\ segs.ok
                         /\ \A i \in 1..Len(segs.value) :
                               segs.value[i] # 0 /\ Low28(segs.value[i]) = 0
          IN  /\ last.returned.result = "Ok" <=> aligned
              /\ aligned => last.returned.value =
                               [i \in 1..Len(segs.value) |-> High4(segs.value[i]) - 1]
    /\ (/\ last.op = "round_trip"
        /\ \A i \in 1..Len(last.index_path) : last.index_path[i] + 1 < 16)
          => last.returned.result = "Ok" /\ last.returned.value = last.index_path

-----------------------------------------------------------------------------
(* One extract_structural_template call on two elements that differ in the
   number of their children. *)

MaxChildCount == 4

\* A div with n children, the first a Text or a span, the others Text.
CountNode(n, first_is_text) ==
    VElement("div", {},
             [i \in 1..n |-> IF i = 1 /\ ~first_is_text
                             THEN Some(VElement("span", {}, <<>>, None, <<>>))
                             ELSE Some(VText(<<"A">>, <<>>))],
             None, <<>>)

CountNodes == {CountNode(n, t) : n \in 0..MaxChildCount, t \in BOOLEAN}

CountValues == {JBool(TRUE), JBool(FALSE), JString(<<"a">>), Num(1)}

StructuralInit ==
    /\ last = NoCall
    /\ METRICS = Idle
    /\ patterns = Idle /\ config = Idle /\ now = Idle
    /\ inserted = Idle /\ observed = Idle /\ loaded = Idle
    /\ StaticIdle /\ RecIdle /\ PVIdle

ExtractStructuralCounts ==
    /\ last = NoCall
    /\ \E o \in CountValues, n \in CountValues, old_node \in CountNodes, new_node \in CountNodes :
          last' = [op |-> "extract_structural_template",
                   state_change |-> StateChange(<<"c">>, <<"k">>, o, n),
                   old_node |-> old_node, new_node |-> new_node,
                   result |-> extract_structural_template(
                                  StateChange(<<"c">>, <<"k">>, o, n), <<0>>,
                                  old_node, new_node)]
    /\ UNCHANGED <<patterns, config, METRICS, now, inserted, observed, loaded, RecVars, PVVars, StaticVars>>

SpecStructural == StructuralInit /\ [][ExtractStructuralCounts]_vars

-----------------------------------------------------------------------------
(* Claims about the child-count rule (SpecStructural). *)

\* The call is on two elements of one tag for a boolean or enum change.
SameTagBoolOrEnum ==
    /\ last.op = "extract_structural_template"
    /\ last.old_node.type = "Element" /\ last.new_node.type = "Element"
    /\ last.old_node.tag = last.new_node.tag
    /\ \/ last.state_change.old_value.t = "Bool" /\ last.state_change.new_value.t = "Bool"
       \/ last.state_change.old_value.t = "String" /\ last.state_change.new_value.t = "String"

StateValueMatch(path, value_str, content_position) ==
    [path |-> path, value_str |-> value_str, content_position |-> content_position]

\* result.entry(s).or_insert_with(Vec::new).push(path)
EntryPush(result, s, path) ==
    IF \E e \in result : e[1] = s
    THEN {IF e[1] = s THEN <<s, Append(e[2], path)>> ELSE e : e \in result}
    ELSE result \cup {<<s, <<path>>>>}

RECURSIVE traverse(_, _, _)
RECURSIVE TraverseEach(_, _, _, _)
\* The nested fn traverse: the value maps it can leave behind.
traverse(value, current_path, result) ==
    CASE value.t = "String" ->
            IF value.s # <<>> THEN {EntryPush(result, value.s, current_path)} ELSE {result}
      [] value.t = "Number" -> {EntryPush(result, to_string(value), current_path)}
      [] value.t = "Bool" ->
            {EntryPush(result, IF value.b THEN <<"t", "r", "u", "e">>
                                          ELSE <<"f", "a", "l", "s", "e">>, current_path)}
      [] value.t = "Object" ->
            UNION {TraverseEach([i \in 1..Len(order) |-> value.fields[order[i]]],
                                [i \in 1..Len(order) |->
                                    IF current_path = <<>> THEN order[i]
                                    ELSE current_path \o <<".">> \o order[i]],
                                1, result) : order \in Perms(DOMAIN value.fields)}
      [] value.t = "Array" ->
            TraverseEach(value.items,
                         [i \in 1..Len(value.items) |->
                             current_path \o <<"[">> \o Digits(i - 1) \o <<"]">>],
                         1, result)
      [] OTHER -> {result}

TraverseEach(values, paths, i, result) ==
    IF i > Len(values) THEN {result}
    ELSE UNION {TraverseEach(values, paths, i + 1, r) : r \in traverse(values[i], paths[i], result)}

collect_all_primitive_values(state) ==
    UNION {TraverseEach([i \in 1..Len(order) |-> order[i][2]],
                        [i \in 1..Len(order) |-> order[i][1]], 1, {}) : order \in Perms(state)}

RECURSIVE Occurrences(_, _, _)
\* The while-let loop: the positions content[search_pos..].find(value_str)
\* yields, each search resuming after the end of the match before.
Occurrences(content, value_str, search_pos) ==
    LET found == {p \in search_pos..(Len(content) - Len(value_str)) :
                     StartsWithAt(content, p + 1, value_str)}
    IN  IF found = {} THEN <<>>
        ELSE LET pos == CHOOSE p \in found : \A q \in found : p <= q
             IN  <<pos>> \o Occurrences(content, value_str, pos + Len(value_str))

RECURSIVE MatchesInOrder(_, _, _)
\* The for loop over value_map, its entries visited in the given order.
MatchesInOrder(order, i, content) ==
    IF i > Len(order) THEN <<>>
    ELSE LET value_str == order[i][1]
             paths == order[i][2]
             found == Occurrences(content, value_str, 0)
         IN  (IF paths # <<>>
              THEN [n \in 1..Len(found) |-> StateValueMatch(paths[1], value_str, found[n])]
              ELSE <<>>)
             \o MatchesInOrder(order, i + 1, content)

RECURSIVE sort_by_content_position(_)
\* slice::sort_by_key is stable: equal keys keep their order.
sort_by_content_position(matches) ==
    IF matches = <<>> THEN <<>>
    ELSE LET i == CHOOSE n \in 1..Len(matches) :
                     /\ \A m \in 1..Len(matches) :
                            matches[n].content_position <= matches[m].content_position
                     /\ \A m \in 1..(n - 1) :
                            matches[m].content_position # matches[n].content_position
         IN  <<matches[i]>> \o
             sort_by_content_position(SubSeq(matches, 1, i - 1) \o
                                      SubSeq(matches, i + 1, Len(matches)))

RECURSIVE RemoveOverlapping(_, _, _)
\* The filter loop: a match is kept when it starts at or after last_end.
RemoveOverlapping(matches, i, last_end) ==
    IF i > Len(matches) THEN <<>>
    ELSE IF matches[i].content_position >= last_end
         THEN <<matches[i]>> \o
              RemoveOverlapping(matches, i + 1,
                                matches[i].content_position + Len(matches[i].value_str))
         ELSE RemoveOverlapping(matches, i + 1, last_end)

find_state_values_in_content(state, content) ==
    {RemoveOverlapping(sort_by_content_position(MatchesInOrder(order, 1, content)), 1, 0) :
        order \in UNION {Perms(value_map) : value_map \in collect_all_primitive_values(state)}}

MaxContentLen == 4

ContentChars == {"a", "b"}
Contents == UNION {[1..n -> ContentChars] : n \in 0..MaxContentLen}
StateKeys == {<<"x">>, <<"y">>, <<"z">>}
StateValues ==
    {JString(s) : s \in UNION {[1..n -> ContentChars] : n \in 0..2}}
        \cup {Num(1), JBool(TRUE), JNull,
              JObject([f \in {<<"n">>} |-> JString(<<"a">>)]),
              JArray(<<JString(<<"b">>)>>)}
States == UNION {{{<<k, f[k]>> : k \in ks} : f \in [ks -> StateValues]} : ks \in SUBSET StateKeys}

DeepStateInit ==
    /\ last = NoCall
    /\ METRICS = Idle
    /\ patterns = Idle /\ config = Idle /\ now = Idle
    /\ inserted = Idle /\ observed = Idle /\ loaded = Idle
    /\ StaticIdle /\ RecIdle /\ PVIdle

FindStateValues ==
    /\ last = NoCall
    /\ \E state \in States, content \in Contents :
         \E result \in find_state_values_in_content(state, content) :
            last' = [op |-> "find_state_values_in_content", state |-> state,
                     content |-> content, result |-> result]
    /\ UNCHANGED <<patterns, config, METRICS, now, inserted, observed, loaded, RecVars, PVVars, StaticVars>>

SpecDeepState == DeepStateInit /\ [][FindStateValues]_vars

\* Every occurrence the search loops push, before sorting and filtering.
Candidates(state, content) ==
    UNION {{[value_str |-> e[1], content_position |-> found[n]] :
               n \in DOMAIN Occurrences(content, e[1], 0), found \in {Occurrences(content, e[1], 0)}} :
           e \in UNION collect_all_primitive_values(state)}

Overlap(a, b) ==
    /\ a.content_position < b.content_position + Len(b.value_str)
    /\ b.content_position < a.content_position + Len(a.value_str)

Kept(c, result) ==
    \E i \in DOMAIN result : /\ result[i].value_str = c.value_str
                             /\ result[i].content_position = c.content_position

\* The matches are in strictly increasing position and none overlaps the next.
SortedAndDisjoint(result) ==
    \A i \in 1..(Len(result) - 1) :
        result[i].content_position + Len(result[i].value_str) <= result[i + 1].content_position

\* C32: the matches find_state_values_in_content returns are sorted by
\* strictly increasing content position and pairwise non-overlapping; of
\* two overlapping candidate occurrences the one that starts further left
\* is kept; and the same state and content always yield the same list.
C32_MatchesSortedDisjointLeftmostDeterministic ==
    last.op = "find_state_values_in_content" =>
        /\ SortedAndDisjoint(last.result)
        /\ \A i \in DOMAIN last.result : Len(last.result[i].value_str) > 0
        /\ \A a, b \in Candidates(last.state, last.content) :
              (Overlap(a, b) /\ a.content_position < b.content_position) => Kept(a, last.result)
        /\ find_state_values_in_content(last.state, last.content) = {last.result}

-----------------------------------------------------------------------------
(* The state key limit (SpecKeyLimit): predictors made by new or           *)
(* with_config, with limits small enough for the calls to pass them.       *)

KeyLimitConfigs ==
    {[ConfigDefault EXCEPT !.max_state_keys = n, !.max_memory_bytes = m, !.eviction_policy = policy] :
        n \in 0..2, m \in {900, ConfigDefault.max_memory_bytes},
        policy \in {"LeastFrequentlyUsed", "LeastRecentlyUsed", "OldestFirst"}}

KeyLimitInit ==
    /\ patterns = NewStore
    /\ config \in KeyLimitConfigs
    /\ METRICS = MetricsNew
    /\ now = 0
    /\ last = NoCall
    /\ shadow = IdleCall
    /\ inserted = Idle /\ observed = Idle /\ loaded = Idle
    /\ LOGGER = Idle /\ PREDICTORS = Idle /\ NEXT_PREDICTOR_ID = Idle
    /\ guards = Idle /\ threads = Idle /\ history = Idle
    /\ RecIdle /\ PVIdle

SpecKeyLimit == KeyLimitInit /\ [][EvictionNext]_vars

\* C33: for a predictor created by new or with_config the store holds at
\* most max_state_keys + 1 keys after every learn call (and at every point
\* of one); a learn that starts with more than max_state_keys keys first
\* reduces the store to floor(0.9 * max_state_keys) keys, and the insertion
\* that follows adds at most one key to what the limits left.
C33_KeyCountBounded ==
    /\ [](Cardinality(KeysIn(patterns)) <= config.max_state_keys + 1)
    /\ [][(/\ shadow = IdleCall /\ shadow' # IdleCall
           /\ Cardinality(KeysIn(patterns)) > config.max_state_keys) =>
             Cardinality(KeysIn(patterns')) = (config.max_state_keys * 9) \div 10]_vars
    /\ [][(shadow.pc = "evicting" /\ shadow'.pc = "evicting") =>
             Cardinality(KeysIn(patterns')) < Cardinality(KeysIn(patterns))]_vars
    /\ [][(shadow.pc = "store" /\ shadow' = IdleCall) =>
             /\ Cardinality(KeysIn(patterns')) <= Cardinality(KeysIn(patterns)) + 1
             /\ KeysIn(patterns) \subseteq KeysIn(patterns')]_vars

\* The fourth learn found three keys under a limit of two, removed two of
\* them and is about to insert.
C33_Witness ==
    /\ config.max_state_keys = 2
    /\ config.max_memory_bytes = ConfigDefault.max_memory_bytes
    /\ shadow.pc = "store"
    /\ now = 3
    /\ METRICS.evictions_performed = 2
    /\ Cardinality(KeysIn(patterns)) = 1

-----------------------------------------------------------------------------
(* Claims about the prediction counters (Spec). *)

\* C34: after any sequence of learn, predict and verify_prediction calls
\* every stored pattern has predictions_correct + predictions_incorrect <=
\* predictions_made, and stats().hit_rate lies between 0 and 1.
C34_VerifiedAtMostMade ==
    /\ \A k \in KeysIn(patterns) : \A i \in 1..Len(patterns[k][1]) :
          patterns[k][1][i].predictions_correct + patterns[k][1][i].predictions_incorrect
              <= patterns[k][1][i].predictions_made
    /\ stats(patterns).hit_rate.num >= 0
    /\ stats(patterns).hit_rate.num <= stats(patterns).hit_rate.den

\* C35: when predict has returned a learned prediction for a state change
\* and verify_prediction is the next call, for the same state change, the
\* pattern whose predictions_correct or predictions_incorrect grows is the
\* pattern whose predictions_made predict incremented.
C35_VerifyCountsThePredictedPattern ==
    [][(/\ last.op = "predict"
        /\ predict(patterns, config, last.state_change, last.current_tree).patterns # patterns
        /\ last'.op = "verify"
        /\ last'.state_change = last.state_change) =>
          LET pattern_key == make_pattern_key(last.state_change)
              list == patterns[pattern_key][1]
              predicted == most_observed(list, {i \in 1..Len(list) :
                              list[i].pattern_type = detect_pattern_type(last.state_change)})
          IN  \A i \in 1..Len(list) :
                 patterns'[pattern_key][1][i] # list[i] => i = predicted]_vars

-----------------------------------------------------------------------------
(* A counter rendered as text and learned at successive values             *)
(* (SpecStoredPatches): the observations of one key share their pattern    *)
(* type and patch shape while their trees differ.                          *)

ChangeUp == StateChange(<<"c">>, <<"n">>, Num(2), Num(3))

TextC3 == VText(<<"C", "3">>, RootPath)

StoredCalls ==
    { <<ChangeCount, TextC1, TextC2>>, <<ChangeUp, TextC2, TextC3>>,
      <<ChangeCount, TextC1, EmptyDiv>>, <<ChangeFlag, TextC1, TextC2>> }

StoredPatchesInit ==
    /\ StaticIdle
    /\ patterns = NewStore
    /\ config \in {ConfigDefault, [ConfigDefault EXCEPT !.min_confidence = 50]}
    /\ METRICS = MetricsNew
    /\ now = 0
    /\ inserted = 0
    /\ observed = {}
    /\ last = NoCall
    /\ loaded = None
    /\ RecIdle /\ PVIdle

StoredPatchesNext ==
    \/ \E c \in StoredCalls : Learn(c[1], c[2], c[3])
    \/ \E sc \in {ChangeCount, ChangeUp, ChangeFlag}, t \in {TextC1, TextC2} : Predict(sc, t)

SpecStoredPatches == StoredPatchesInit /\ [][StoredPatchesNext]_vars

\* C36: every stored pattern's patches are what reconcile yields for the
\* pattern's stored old_tree and new_tree, and the predicted_patches of a
\* learned prediction turn the stored old_tree of the pattern predicted
\* from into the predicted_tree returned.
C36_StoredPatchesMatchStoredTrees ==
    /\ \A k \in KeysIn(patterns) : \A i \in 1..Len(patterns[k][1]) :
          LET pattern == patterns[k][1][i]
          IN  /\ pattern.old_tree # None /\ pattern.new_tree # None
              /\ \E r \in reconcile(pattern.old_tree[1], pattern.new_tree[1]) :
                    r.ok /\ r.patches = pattern.patches
    /\ (/\ last.op = "predict"
        /\ predict(patterns, config, last.state_change, last.current_tree).patterns # patterns) =>
          LET list == patterns[make_pattern_key(last.state_change)][1]
              best_idx == most_observed(list, {i \in 1..Len(list) :
                              list[i].pattern_type = detect_pattern_type(last.state_change)})
          IN  ApplyAll(list[best_idx].old_tree, last.prediction[1].predicted_patches)
                 = [ok |-> TRUE, tree |-> last.prediction[1].predicted_tree]

-----------------------------------------------------------------------------
(* Whether a new observation survives the cap of its key (SpecPatterns). *)

\* No pattern stored under the key of the learn just made had its pattern
\* type and the shape of its patches.
NewForKey ==
    \A r \in reconcile(last'.old_tree, last'.new_tree) :
        r.ok => ShapeMatches(ListOf(patterns, make_pattern_key(last'.state_change)),
                             detect_pattern_type(last'.state_change), r.patches) = {}

\* The list holds a pattern made from the observation of the learn just made.
ObservationStored(list) ==
    \E p \in Range(list) :
        /\ p.pattern_type = detect_pattern_type(last'.state_change)
        /\ p.observation_count = 1
        /\ p.created_at = now
        /\ p.old_tree = Some(last'.old_tree) /\ p.new_tree = Some(last'.new_tree)
        /\ \E r \in reconcile(last'.old_tree, last'.new_tree) : r.ok /\ p.patches = r.patches

\* C37: after a successful learn of an observation whose pattern type and
\* patch shape are new for its key, a pattern for the observation is stored
\* under the key, whatever the eviction policy and the cap.
C37_NewObservationIsStored ==
    [][(last'.op = "learn" /\ last'.ok /\ NewForKey) =>
          ObservationStored(ListOf(patterns', make_pattern_key(last'.state_change)))]_vars

\* C37 (amended): the pattern is stored unless the policy is
\* LeastFrequentlyUsed and the key holds max_patterns_per_key patterns when
\* the insertion is made; then the list holds the patterns it held (sorted
\* anew) and none for the observation.
C37_NewObservationIsStoredUnlessLeastFrequent ==
    [][(last'.op = "learn" /\ last'.ok /\ NewForKey) =>
          \E e \in enforce_memory_limits(patterns, config, now) :
             LET k == make_pattern_key(last'.state_change)
                 pre == ListOf(e.patterns, k)
                 post == ListOf(patterns', k)
             IN  /\ \A j \in DOMAIN patterns : j # k => patterns'[j] = e.patterns[j]
                 /\ IF /\ config.eviction_policy = "LeastFrequentlyUsed"
                       /\ Len(pre) >= config.max_patterns_per_key
                    THEN /\ Len(post) = Len(pre) /\ Range(post) = Range(pre)
                         /\ ~ObservationStored(post)
                    ELSE ObservationStored(post)]_vars

\* Under OldestFirst with a cap of 1 the second learn of the key, of a new
\* shape, replaced the pattern the first had stored.
C37_Witness ==
    /\ last.op = "learn" /\ last.ok /\ now = 2
    /\ config.max_patterns_per_key = 1
    /\ config.eviction_policy = "OldestFirst"
    /\ METRICS.predictor_learns = 2 /\ METRICS.predictor_learn_errors = 0
    /\ KeysIn(patterns) = {make_pattern_key(last.state_change)}
    /\ LET list == ListOf(patterns, make_pattern_key(last.state_change))
       IN  Len(list) = 1 /\ list[1].created_at = 1 /\ list[1].observation_count = 1

-----------------------------------------------------------------------------
(* minimact-rust-runtime: the task runtime (SpecTasks).  The DashMap tasks  *)
(* of RustTaskRuntime is held in PREDICTORS and the futures spawned on the  *)
(* Tokio runtime in threads; a future runs on a worker thread of its own,   *)
(* so its steps interleave with the calls made on the runtime.  A get_mut   *)
(* guard holds the shard of the entry, so what is done under one guard is   *)
(* one step.                                                                *)

tasks == PREDICTORS

TaskIds == {"t1", "t2"}

\* TaskHandle::new; SystemTime::now() is the token "now".
TaskHandleNew(task_id) ==
    [task_id |-> task_id, status |-> "Idle", result |-> None, error |-> None,
     started_at |-> None, completed_at |-> None]

set_status(handle, status) ==
    IF status = "Running"
    THEN [handle EXCEPT !.status = status, !.started_at = Some("now")]
    ELSE IF status \in {"Complete", "Error", "Cancelled"}
    THEN [handle EXCEPT !.status = status, !.completed_at = Some("now")]
    ELSE [handle EXCEPT !.status = status]

set_result(handle, result) == [handle EXCEPT !.result = Some(result)]

set_error(handle, error) == [handle EXCEPT !.error = Some(error)]

TasksInit ==
    /\ PREDICTORS = [id \in TaskIds |-> None]
    /\ threads = [id \in TaskIds |-> "unspawned"]
    /\ LOGGER = Idle /\ NEXT_PREDICTOR_ID = Idle /\ guards = Idle
    /\ history = Idle /\ shadow = Idle
    /\ METRICS = Idle
    /\ PredIdle /\ RecIdle /\ PVIdle

TasksFrame ==
    UNCHANGED <<LOGGER, NEXT_PREDICTOR_ID, guards, history, shadow, METRICS,
                PredVars, RecVars, PVVars>>

\* execute_task: the handle is inserted and the future spawned.
ExecuteTask(task_id) ==
    /\ threads[task_id] = "unspawned"
    /\ PREDICTORS' = [tasks EXCEPT ![task_id] = Some(TaskHandleNew(task_id))]
    /\ threads' = [threads EXCEPT ![task_id] = "spawned"]
    /\ TasksFrame

\* The future's first step: "Mark as running".
TaskStart(task_id) ==
    /\ threads[task_id] = "spawned"
    /\ PREDICTORS' = IF tasks[task_id] # None
                     THEN [tasks EXCEPT ![task_id] = Some(set_status(tasks[task_id][1], "Running"))]
                     ELSE tasks
    /\ threads' = [threads EXCEPT ![task_id] = "awaiting"]
    /\ TasksFrame

\* task_fn.await returned Ok(result).
TaskComplete(task_id) ==
    /\ threads[task_id] = "awaiting"
    /\ PREDICTORS' = IF tasks[task_id] # None
                     THEN [tasks EXCEPT ![task_id] =
                              Some(set_result(set_status(tasks[task_id][1], "Complete"), "result"))]
                     ELSE tasks
    /\ threads' = [threads EXCEPT ![task_id] = "finished"]
    /\ TasksFrame

\* task_fn.await returned Err(err).
TaskFail(task_id) ==
    /\ threads[task_id] = "awaiting"
    /\ PREDICTORS' = IF tasks[task_id] # None
                     THEN [tasks EXCEPT ![task_id] =
                              Some(set_error(set_status(tasks[task_id][1], "Error"), "err"))]
                     ELSE tasks
    /\ threads' = [threads EXCEPT ![task_id] = "finished"]
    /\ TasksFrame

CancelTask(task_id) ==
    /\ tasks[task_id] # None
    /\ PREDICTORS' = [tasks EXCEPT ![task_id] = Some(set_status(tasks[task_id][1], "Cancelled"))]
    /\ UNCHANGED threads
    /\ TasksFrame

RemoveTask(task_id) ==
    /\ tasks[task_id] # None
    /\ PREDICTORS' = [tasks EXCEPT ![task_id] = None]
    /\ UNCHANGED threads
    /\ TasksFrame

TasksNext ==
    \E task_id \in TaskIds :
        \/ ExecuteTask(task_id)
        \/ TaskStart(task_id)
        \/ TaskComplete(task_id)
        \/ TaskFail(task_id)
        \/ CancelTask(task_id)
        \/ RemoveTask(task_id)

SpecTasks == TasksInit /\ [][TasksNext]_vars

\* C38: once cancel_task has set a task's status to Cancelled, no step of
\* the spawned future (its start, its completion, its failure) makes the
\* status anything else.
C38_CancelledStaysCancelled ==
    [][\A task_id \in TaskIds :
          (/\ tasks[task_id] # None
           /\ tasks[task_id][1].status = "Cancelled"
           /\ threads'[task_id] # threads[task_id]
           /\ tasks'[task_id] # None) => tasks'[task_id][1].status = "Cancelled"]_vars

-----------------------------------------------------------------------------
(* cactus-browser: UpdateComponentState (SpecSignalM).  The static          *)
(* COMPONENT_REGISTRY (a Mutex around a HashMap) is held in PREDICTORS and  *)
(* the calls in progress in threads.  Tauri runs each invocation of an      *)
(* async command as a task of its own on a multi-threaded runtime, so two   *)
(* calls interleave wherever the Mutex is not held: a call takes it once to *)
(* update the state and once more to store the new vnode.                   *)

COMPONENT_REGISTRY == PREDICTORS

Callers == {1, 2}

ComponentIds == {<<"c", "1">>, <<"c", "2">>}

UpdateKeys == {"a", "b"}

UpdateValues == {1, 2}

\* ComponentInstance::new followed by the vnode_json handle_initialize stores.
ComponentInstance(id, initial_state, vnode_json) ==
    [id |-> id, state |-> initial_state, vnode_json |-> vnode_json]

\* The vnode JSON the external runtime renders for a state: some text that
\* the state determines, a different one for every state.
RenderOf(state) == [vnode_of |-> state]

\* execute_component followed by the success test: every response the
\* runtime process can give, a rendered vnode or a failure.
execute_component(initial_state) ==
    {[ok |-> TRUE, vnode_json |-> Some(RenderOf(initial_state))],
     [ok |-> FALSE, vnode_json |-> None]}

\* HashMap::insert on the state of a component.
StateInsert(state, k, v) ==
    [j \in DOMAIN state \cup {k} |-> IF j = k THEN v ELSE state[j]]

EmptyState == [j \in {} |-> 0]

SignalMInit ==
    /\ PREDICTORS = {<<c, ComponentInstance(c, EmptyState, Some(RenderOf(EmptyState)))>> :
                        c \in {<<"c", "1">>}}
    /\ threads = [t \in Callers |-> [pc |-> "idle"]]
    /\ LOGGER = Idle /\ NEXT_PREDICTOR_ID = Idle /\ guards = Idle
    /\ history = Idle /\ shadow = Idle
    /\ METRICS = Idle
    /\ PredIdle /\ RecIdle /\ PVIdle

SignalMFrame ==
    UNCHANGED <<LOGGER, NEXT_PREDICTOR_ID, guards, history, shadow, METRICS,
                PredVars, RecVars, PVVars>>

Registered(component_id) == \E e \in COMPONENT_REGISTRY : e[1] = component_id

ComponentOf(component_id) == (CHOOSE e \in COMPONENT_REGISTRY : e[1] = component_id)[2]

\* Steps 1 and 2 of handle_update_component_state, under the first lock:
\* the component is looked up, its state updated and a copy of it taken.
UpdateComponentStateBegin(t, component_id, state_key, value) ==
    /\ threads[t].pc = "idle"
    /\ IF Registered(component_id)
       THEN LET component == ComponentOf(component_id)
                new_state == StateInsert(component.state, state_key, value)
            IN  /\ PREDICTORS' = (COMPONENT_REGISTRY \ {<<component_id, component>>})
                                    \cup {<<component_id, [component EXCEPT !.state = new_state]>>}
                /\ threads' = [threads EXCEPT ![t] =
                                  [pc |-> "rendering", component_id |-> component_id,
                                   old_vnode |-> component.vnode_json, new_state |-> new_state,
                                   state_before |-> component.state]]
       ELSE /\ threads' = [threads EXCEPT ![t] = [pc |-> "returned", ok |-> FALSE,
                                                   error |-> "Component not found"]]
            /\ UNCHANGED PREDICTORS
    /\ SignalMFrame

\* Steps 3 to 6: the component is rendered again outside the lock; a failed
\* render returns at once, a successful one is stored under the second lock.
UpdateComponentStateFinish(t) ==
    /\ threads[t].pc = "rendering"
    /\ \E response \in execute_component(threads[t].new_state) :
          IF response.ok
          THEN /\ PREDICTORS' =
                     IF Registered(threads[t].component_id)
                     THEN LET component == ComponentOf(threads[t].component_id)
                          IN  (COMPONENT_REGISTRY \ {<<threads[t].component_id, component>>})
                                 \cup {<<threads[t].component_id,
                                         [component EXCEPT !.vnode_json = response.vnode_json]>>}
                     ELSE COMPONENT_REGISTRY
               /\ threads' = [threads EXCEPT ![t] =
                                 [pc |-> "returned", ok |-> TRUE, error |-> "",
                                  state_before |-> threads[t].state_before]]
          ELSE /\ threads' = [threads EXCEPT ![t] =
                                 [pc |-> "returned", ok |-> FALSE, error |-> "Re-render failed",
                                  state_before |-> threads[t].state_before]]
               /\ UNCHANGED PREDICTORS
    /\ SignalMFrame

SignalMNext ==
    \E t \in Callers :
        \/ \E component_id \in ComponentIds, state_key \in UpdateKeys, value \in UpdateValues :
              UpdateComponentStateBegin(t, component_id, state_key, value)
        \/ UpdateComponentStateFinish(t)

SpecSignalM == SignalMInit /\ [][SignalMNext]_vars

\* C39: when no UpdateComponentState call is in progress, every component's
\* stored vnode_json is the render of its stored state; and a call whose
\* re-render failed, no other call having been made, has left the stored
\* state as it was before the call.
C39_VnodeIsRenderOfFinalState ==
    (\A t \in Callers : threads[t].pc # "rendering") =>
        /\ \A e \in COMPONENT_REGISTRY : e[2].vnode_json = Some(RenderOf(e[2].state))
        /\ \A t \in Callers :
              (/\ threads[t].pc = "returned" /\ threads[t].error = "Re-render failed"
               /\ \A u \in Callers \ {t} : threads[u].pc = "idle") =>
                 ComponentOf(<<"c", "1">>).state = threads[t].state_before

====
